---- MODULE Spec2Model ----
(***************************************************************************)
(* Model of the dataset resolution layer of dClimate-Zarr-Client:          *)
(*   - get_ipns_name_hash / list_datasets (registry with local cache       *)
(*     fallback), src/src/ipfs_retrieval.py                                *)
(*   - _get_relevant_metadata (backward walk over the snapshot chain),     *)
(*     src/src/ipfs_retrieval.py and the earlier copy the client imports,  *)
(*     src/dclimate_zarr_client/ipfs_retrieval.py                          *)
(*   - the chunk codec, src/dclimate_zarr_client/encryption_codec.py       *)
(***************************************************************************)
EXTENDS Integers, Sequences, FiniteSets, TLC

VARIABLES cache, call, walk, codec

vars == <<cache, call, walk, codec>>

(***************************************************************************)
(* Data: dataset keys, pointers, JSON documents.                           *)
(***************************************************************************)
Keys == {"k1", "k2"}
Pointers == {"p1", "p2"}

\* A JSON object mapping dataset keys to pointers (a Python dict).
Mappings == UNION {[D -> Pointers] : D \in SUBSET Keys}

EmptyMapping == [k \in {} |-> "p1"]

\* A parsed JSON document: an object, an array of strings, or a scalar
\* (number, boolean or null: the values Python cannot iterate).
JsonDoc(kind, map, items) == [kind |-> kind, map |-> map, items |-> items]

JsonObject(m) == JsonDoc("object", m, {})

JsonArray(s) == JsonDoc("array", EmptyMapping, s)

JsonScalar == JsonDoc("scalar", EmptyMapping, {})

NoDoc == JsonDoc("none", EmptyMapping, {})

JsonDocs ==
    {JsonObject(m) : m \in Mappings} \cup {JsonArray(s) : s \in SUBSET Keys}
        \cup {JsonScalar}

\* What the registry endpoint does on one request: the connection fails, the
\* server answers with an error status, the body is not JSON, the body is
\* JSON nested deeper than the parser recurses, the body is JSON with an
\* integer of more digits than Python converts, or the body is a JSON
\* document.
RegistryOutcomes ==
    {[kind |-> k, doc |-> NoDoc] :
        k \in {"network_error", "http_error", "bad_json", "too_deep", "big_int"}}
        \cup {[kind |-> "json", doc |-> d] : d \in JsonDocs}

\* The cache file cids.json beside the module: absent, present but not
\* readable by the process, a directory of that name, empty, text that is not
\* JSON, bytes that are not UTF-8 text, JSON nested deeper than the parser
\* recurses, JSON with an integer of more digits than Python converts, or
\* holding a JSON document.
CacheStates ==
    {[kind |-> k, doc |-> NoDoc] :
        k \in {"missing", "unreadable", "directory", "empty", "bad_json",
               "not_utf8", "too_deep", "big_int"}}
        \cup {[kind |-> "json", doc |-> d] : d \in JsonDocs}

CacheOf(m) == [kind |-> "json", doc |-> JsonObject(m)]

(***************************************************************************)
(* Outcomes of a call: a returned pointer, a returned key list, or a       *)
(* raised exception.                                                       *)
(***************************************************************************)
Outcome(kind, ptr, keys, exc) == [kind |-> kind, ptr |-> ptr, keys |-> keys, exc |-> exc]

ReturnPtr(p) == Outcome("return", p, {}, "")

ReturnKeys(s) == Outcome("return_keys", "", s, "")

Raise(e) == Outcome("raise", "", {}, e)

FallThrough == Outcome("none", "", {}, "")

\* Python exception classes and their bases.  "requests.JSONDecodeError" is
\* the class r.json() raises: requests.exceptions.JSONDecodeError, which
\* derives from InvalidJSONError (a RequestException) and from
\* json.JSONDecodeError; "JSONDecodeError" is json.JSONDecodeError itself.
Bases(e) ==
    CASE e = "ConnectionError" -> {"ConnectionError", "RequestException", "OSError"}
      [] e = "HTTPError" -> {"HTTPError", "RequestException", "OSError"}
      [] e = "requests.JSONDecodeError" ->
            {"requests.JSONDecodeError", "InvalidJSONError", "RequestException",
             "OSError", "JSONDecodeError", "ValueError"}
      [] e = "JSONDecodeError" -> {"JSONDecodeError", "ValueError"}
      [] e = "UnicodeDecodeError" -> {"UnicodeDecodeError", "UnicodeError", "ValueError"}
      [] e = "RecursionError" -> {"RecursionError", "RuntimeError"}
      [] e = "PermissionError" -> {"PermissionError", "OSError"}
      [] e = "IsADirectoryError" -> {"IsADirectoryError", "OSError"}
      [] e = "FileNotFoundError" -> {"FileNotFoundError", "OSError"}
      [] OTHER -> {e}

\* except (classes): does the clause catch exception e?
Catches(classes, e) == (Bases(e) \cap classes) # {}

(***************************************************************************)
(* Registry request, lines 98-100 (212-214 in list_datasets):              *)
(*   r = requests.get(CID_ENDPOINT, ...); r.raise_for_status(); r.json()   *)
(***************************************************************************)
Fetched(ok, doc, exc) == [ok |-> ok, doc |-> doc, exc |-> exc]

FetchRegistry(reg) ==
    CASE reg.kind = "network_error" -> Fetched(FALSE, NoDoc, "ConnectionError")
      [] reg.kind = "http_error" -> Fetched(FALSE, NoDoc, "HTTPError")
      [] reg.kind = "bad_json" -> Fetched(FALSE, NoDoc, "requests.JSONDecodeError")
      [] reg.kind = "too_deep" -> Fetched(FALSE, NoDoc, "RecursionError")
      [] reg.kind = "big_int" -> Fetched(FALSE, NoDoc, "ValueError")
      [] OTHER -> Fetched(TRUE, reg.doc, "")

\* os.path.exists(cache_file), line 109 (220).
CacheExists(c) == c.kind # "missing"

\* with open(cache_file, "r") as f: json_cid = json.load(f), lines 111-114,
\* on the file as it is when open() looks, which is after os.path.exists
\* looked: the file may be gone by then.  json.load reads the file as text
\* and then parses it: bytes that are not UTF-8 fail in the read, nesting
\* beyond the recursion limit and integers beyond the digit limit in the
\* parser.
ReadCache(o) ==
    CASE o.kind = "missing" -> Fetched(FALSE, NoDoc, "FileNotFoundError")
      [] o.kind = "unreadable" -> Fetched(FALSE, NoDoc, "PermissionError")
      [] o.kind = "directory" -> Fetched(FALSE, NoDoc, "IsADirectoryError")
      [] o.kind \in {"empty", "bad_json"} -> Fetched(FALSE, NoDoc, "JSONDecodeError")
      [] o.kind = "not_utf8" -> Fetched(FALSE, NoDoc, "UnicodeDecodeError")
      [] o.kind = "too_deep" -> Fetched(FALSE, NoDoc, "RecursionError")
      [] o.kind = "big_int" -> Fetched(FALSE, NoDoc, "ValueError")
      [] OTHER -> Fetched(TRUE, o.doc, "")

\* for entry in json_cid: if entry == ipns_key_str: return json_cid[entry]
\* (lines 102-104 and 115-117). Iterating a dict yields its keys; iterating a
\* list yields its items and indexing the list by a string raises TypeError;
\* a scalar is not iterable.
LookupEntry(doc, key) ==
    CASE doc.kind = "object" ->
            IF key \in DOMAIN doc.map THEN ReturnPtr(doc.map[key]) ELSE FallThrough
      [] doc.kind = "array" ->
            IF key \in doc.items THEN Raise("TypeError") ELSE FallThrough
      [] OTHER -> Raise("TypeError")

\* Faulty variant: the fallback never returns what it finds in the file.
LocalFallbackNoReturn(key, c, o) == Raise("DatasetNotFoundError")

\* The except branch of get_ipns_name_hash, lines 106-120, followed by the
\* final raise of line 123; c is the file as os.path.exists finds it, o the
\* file as open() finds it.
LocalFallback(key, c, o) ==
    IF CacheExists(c)
    THEN LET rd == ReadCache(o)
         IN IF ~rd.ok
            THEN IF Catches({"KeyError", "JSONDecodeError"}, rd.exc)
                 THEN Raise("DatasetNotFoundError")
                 ELSE Raise(rd.exc)
            ELSE LET found == LookupEntry(rd.doc, key)
                 IN IF found.kind = "none"
                    THEN Raise("DatasetNotFoundError")
                    ELSE found
    ELSE Raise("DatasetNotFoundError")

\* The except clause after the registry request:
\*   except (requests.RequestException, KeyError, json.JSONDecodeError), line 106
\*   except (requests.RequestException, json.JSONDecodeError), line 217.
FallbackExcept(fn) ==
    IF fn = "get_ipns_name_hash"
    THEN {"RequestException", "KeyError", "JSONDecodeError"}
    ELSE {"RequestException", "JSONDecodeError"}

\* Faulty variant: the local file is looked up first and wins over the registry.
get_ipns_name_hash_CacheFirst(key, reg, c, o) ==
    LET r == FetchRegistry(reg)
        loc == LocalFallback(key, c, o)
    IN IF loc.kind = "return"
       THEN loc
       ELSE IF ~r.ok
            THEN loc
            ELSE LET found == LookupEntry(r.doc, key)
                 IN IF found.kind = "none" THEN Raise("DatasetNotFoundError") ELSE found

\* Faulty variant: a key missing from the fetched mapping is looked up in the
\* local file as well.
get_ipns_name_hash_FallbackOnMiss(key, reg, c, o) ==
    LET r == FetchRegistry(reg)
    IN IF ~r.ok
       THEN LocalFallback(key, c, o)
       ELSE LET found == LookupEntry(r.doc, key)
            IN IF found.kind = "none" THEN LocalFallback(key, c, o) ELSE found

\* get_ipns_name_hash(ipns_key_str), lines 83-123: reg is what the registry
\* answers, c the file as os.path.exists finds it, o the file as open() finds it.
get_ipns_name_hash(key, reg, c, o) ==
    LET r == FetchRegistry(reg)
    IN IF ~r.ok
       THEN IF Catches(FallbackExcept("get_ipns_name_hash"), r.exc)
            THEN LocalFallback(key, c, o)
            ELSE Raise(r.exc)
       ELSE LET found == LookupEntry(r.doc, key)
            IN IF found.kind = "none"
               THEN Raise("DatasetNotFoundError")
               ELSE found

\* list(json_cid.keys()), lines 215 and 224: only a dict has keys().
KeysOf(doc) ==
    IF doc.kind = "object" THEN ReturnKeys(DOMAIN doc.map) ELSE Raise("AttributeError")

\* Faulty variant: the inner except clause is missing, so a file that does
\* not parse lets its JSONDecodeError out.
ListFallback_NoCatch(c, o) ==
    IF CacheExists(c)
    THEN LET rd == ReadCache(o)
         IN IF ~rd.ok THEN Raise(rd.exc) ELSE KeysOf(rd.doc)
    ELSE Raise("RuntimeError")

\* The except branch of list_datasets, lines 217-229, followed by the final
\* raise of line 232.
ListFallback(c, o) ==
    IF CacheExists(c)
    THEN LET rd == ReadCache(o)
         IN IF ~rd.ok
            THEN IF Catches({"JSONDecodeError"}, rd.exc)
                 THEN Raise("RuntimeError")
                 ELSE Raise(rd.exc)
            ELSE KeysOf(rd.doc)
    ELSE Raise("RuntimeError")

\* Faulty variant: the keys of the local file are listed whenever the file
\* holds a mapping, the registry being asked only otherwise.
list_datasets_CacheFirst(reg, c, o) ==
    LET r == FetchRegistry(reg)
        loc == ListFallback(c, o)
    IN IF loc.kind = "return_keys"
       THEN loc
       ELSE IF ~r.ok THEN loc ELSE KeysOf(r.doc)

\* list_datasets(), lines 204-232: reg, c and o as for get_ipns_name_hash.
list_datasets(reg, c, o) ==
    LET r == FetchRegistry(reg)
    IN IF ~r.ok
       THEN IF Catches(FallbackExcept("list_datasets"), r.exc)
            THEN ListFallback(c, o)
            ELSE Raise(r.exc)
       ELSE KeysOf(r.doc)

\* The call comes to open(cache_file) (line 111, 222): the registry request
\* failed with an exception the except clause names, and os.path.exists
\* found the file.
ReachesOpen(classes, reg, c) ==
    /\ ~FetchRegistry(reg).ok
    /\ Catches(classes, FetchRegistry(reg).exc)
    /\ CacheExists(c)

(***************************************************************************)
(* State machine of the resolver: the cache file persists between calls;   *)
(* call records the last call, its inputs and its outcome.  A call that    *)
(* comes to open the cache file takes two steps, one up to os.path.exists  *)
(* and one from open() on, since nothing holds the file in between: the    *)
(* file may be changed there.  before is the file as os.path.exists found  *)
(* it, opened the file as open() found it (as the call left it, when the   *)
(* call did not open it).                                                  *)
(***************************************************************************)
NoCall ==
    [op |-> "none", pc |-> "none", key |-> "",
     registry |-> [kind |-> "none", doc |-> NoDoc],
     before |-> [kind |-> "missing", doc |-> NoDoc], opened |-> [kind |-> "missing", doc |-> NoDoc],
     result |-> FallThrough]

NoWalk == [op |-> "none"]

NoCodec == [op |-> "none"]

Init ==
    /\ cache \in CacheStates
    /\ call = NoCall
    /\ codec = NoCodec
    /\ walk = NoWalk

\* get_ipns_name_hash(key) up to os.path.exists, and to its end when it does
\* not come to open the file.
GetIpnsNameHash ==
    /\ call.pc # "open"
    /\ \E key \in Keys, reg \in RegistryOutcomes :
          call' = IF ReachesOpen(FallbackExcept("get_ipns_name_hash"), reg, cache)
                  THEN [NoCall EXCEPT !.op = "get_ipns_name_hash", !.pc = "open",
                            !.key = key, !.registry = reg, !.before = cache]
                  ELSE [NoCall EXCEPT !.op = "get_ipns_name_hash", !.pc = "done",
                            !.key = key, !.registry = reg, !.before = cache,
                            !.opened = cache,
                            !.result = get_ipns_name_hash(key, reg, cache, cache)]
    /\ UNCHANGED <<cache, walk, codec>>

\* get_ipns_name_hash from open(cache_file) on.
GetIpnsNameHashOpen ==
    /\ call.op = "get_ipns_name_hash"
    /\ call.pc = "open"
    /\ call' = [call EXCEPT
                   !.pc = "done",
                   !.opened = cache,
                   !.result = get_ipns_name_hash(call.key, call.registry,
                                                 call.before, cache)]
    /\ UNCHANGED <<cache, walk, codec>>

\* list_datasets() up to os.path.exists, and to its end when it does not come
\* to open the file.
ListDatasets ==
    /\ call.pc # "open"
    /\ \E reg \in RegistryOutcomes :
          call' = IF ReachesOpen(FallbackExcept("list_datasets"), reg, cache)
                  THEN [NoCall EXCEPT !.op = "list_datasets", !.pc = "open",
                            !.registry = reg, !.before = cache]
                  ELSE [NoCall EXCEPT !.op = "list_datasets", !.pc = "done",
                            !.registry = reg, !.before = cache, !.opened = cache,
                            !.result = list_datasets(reg, cache, cache)]
    /\ UNCHANGED <<cache, walk, codec>>

\* list_datasets from open(cache_file) on.
ListDatasetsOpen ==
    /\ call.op = "list_datasets"
    /\ call.pc = "open"
    /\ call' = [call EXCEPT
                   !.pc = "done",
                   !.opened = cache,
                   !.result = list_datasets(call.registry, call.before, cache)]
    /\ UNCHANGED <<cache, walk, codec>>

\* cids.json is removed, replaced or damaged by another process while a call
\* is between os.path.exists and open().
CacheChangedBeforeOpen ==
    /\ call.pc = "open"
    /\ cache' \in CacheStates \ {cache}
    /\ UNCHANGED <<call, walk, codec>>

Next ==
    \/ GetIpnsNameHash \/ GetIpnsNameHashOpen
    \/ ListDatasets \/ ListDatasetsOpen
    \/ CacheChangedBeforeOpen

Spec == Init /\ [][Next]_vars

(***************************************************************************)
(* Snapshot chain.  A snapshot document carries properties.updated, a      *)
(* second-precision timestamp string, and a list of links; content ids are *)
(* 1..n with the head at n, and 0 stands for None.                         *)
(***************************************************************************)
MaxChain == 3

MaxSec == 2

\* datetime values are finer than the second-precision strings: ticks per second.
TicksPerSecond == 2

Tags == {"previous", "prev"}

NoneHash == 0

Link(rel, href) == [rel |-> rel, href |-> href]

\* The document of snapshot id in a chain whose seconds and predecessor tags
\* are given head first: a self link, then the link to the predecessor, if any.
SnapshotDoc(id, sec, tag) ==
    [updated |-> sec,
     links |-> IF id > 1
               THEN <<Link("self", id), Link(tag, id - 1)>>
               ELSE <<Link("self", id)>>]

Stores ==
    UNION {{[id \in 1..n |-> SnapshotDoc(id, secs[id], tags[id])] :
                secs \in [1..n -> 0..MaxSec], tags \in [1..n -> Tags]} : n \in 1..MaxChain}

\* Stores differing only in the tag of the root, which has no predecessor
\* link, are the same store: SnapshotDoc ignores it.

\* datetime.strptime(updated, "%Y-%m-%dT%H:%M:%SZ"), lines 141-143: the string
\* of whole second s denotes the instant s * TicksPerSecond.
Strptime(updated) == updated * TicksPerSecond

AsOfValues == 0..(MaxSec * TicksPerSecond + TicksPerSecond - 1)

\* [link for link in links if link["rel"] in {"prev", "previous"}], lines 59-61.
RECURSIVE FilterLinks(_, _)
FilterLinks(links, rels) ==
    IF links = <<>>
    THEN <<>>
    ELSE IF Head(links).rel \in rels
         THEN <<Head(links)>> \o FilterLinks(Tail(links), rels)
         ELSE FilterLinks(Tail(links), rels)

\* _get_previous_hash_from_metadata(metadata), lines 48-64.
get_previous_hash_from_metadata(metadata) ==
    LET matching == FilterLinks(metadata.links, {"prev", "previous"})
    IN IF matching = <<>> THEN NoneHash ELSE matching[1].href

WalkResult(kind, id, exc, fetched) ==
    [kind |-> kind, id |-> id, exc |-> exc, fetched |-> fetched]

\* Faulty variant: a snapshot created exactly at as_of is skipped.
RelevantStrict(time_generated, as_of) == time_generated < as_of

\* Faulty variant: only a snapshot created exactly at as_of is relevant.
RelevantExact(time_generated, as_of) == time_generated = as_of

\* time_generated <= as_of, line 144.
Relevant(time_generated, as_of) == time_generated <= as_of

\* The loop of _get_relevant_metadata from the fetch of ipfs_hash on:
\* _get_single_metadata (lines 33-45) raises when the request fails, which is
\* the fail_at-th fetch of the walk (0: none fails).
RECURSIVE WalkFrom(_, _, _, _, _)
WalkFrom(store, as_of, fail_at, ipfs_hash, fetched) ==
    LET log == Append(fetched, ipfs_hash)
    IN IF Len(log) = fail_at \/ ipfs_hash \notin DOMAIN store
       THEN WalkResult("raise", NoneHash, "HTTPError", log)
       ELSE LET cur_metadata == store[ipfs_hash]
                time_generated == Strptime(cur_metadata.updated)
                prev_hash == get_previous_hash_from_metadata(cur_metadata)
            IN IF Relevant(time_generated, as_of)
               THEN WalkResult("return", ipfs_hash, "", log)
               ELSE IF prev_hash = NoneHash
                    THEN WalkResult("raise", NoneHash, "NoMetadataFoundError", log)
                    ELSE WalkFrom(store, as_of, fail_at, prev_hash, log)

\* Faulty variant: with the chain exhausted the oldest snapshot is returned.
get_relevant_metadata_ReturnsRoot(store, ipfs_head_hash, as_of, fail_at) ==
    LET r == WalkFrom(store, as_of, fail_at, ipfs_head_hash, <<>>)
    IN IF r.exc = "NoMetadataFoundError"
       THEN WalkResult("return", r.fetched[Len(r.fetched)], "", r.fetched)
       ELSE r

\* Faulty variant: a failed fetch is reported as a chain without a match.
get_relevant_metadata_HidesFailure(store, ipfs_head_hash, as_of, fail_at) ==
    LET r == WalkFrom(store, as_of, fail_at, ipfs_head_hash, <<>>)
    IN IF r.exc = "HTTPError"
       THEN WalkResult("raise", NoneHash, "NoMetadataFoundError", r.fetched)
       ELSE r

\* Faulty variant: the predecessor of the snapshot returned is fetched too.
get_relevant_metadata_FetchesAhead(store, ipfs_head_hash, as_of, fail_at) ==
    LET r == WalkFrom(store, as_of, fail_at, ipfs_head_hash, <<>>)
        prev_hash == get_previous_hash_from_metadata(store[r.id])
    IN IF r.kind = "return" /\ prev_hash # NoneHash
       THEN [r EXCEPT !.fetched = Append(@, prev_hash)]
       ELSE r

\* _get_relevant_metadata(ipfs_head_hash, as_of), lines 126-149.
get_relevant_metadata(store, ipfs_head_hash, as_of, fail_at) ==
    WalkFrom(store, as_of, fail_at, ipfs_head_hash, <<>>)

(***************************************************************************)
(* State machine of the walker.  _get_relevant_metadata keeps no state     *)
(* between calls: a behaviour is one call, whose inputs (the chain the     *)
(* snapshot store holds, the instant asked for, the fetch that fails, if   *)
(* any) are drawn initially.                                               *)
(***************************************************************************)
NoWalkResult == WalkResult("none", NoneHash, "", <<>>)

WalkInit ==
    /\ cache = [kind |-> "missing", doc |-> NoDoc]
    /\ call = NoCall
    /\ codec = NoCodec
    /\ \E store \in Stores, as_of \in AsOfValues, fail_at \in 0..MaxChain :
          walk = [op |-> "pending", store |-> store, head |-> Len(store),
                  as_of |-> as_of, fail_at |-> fail_at, result |-> NoWalkResult]

GetRelevantMetadata ==
    /\ walk.op = "pending"
    /\ walk' = [walk EXCEPT
                   !.op = "get_relevant_metadata",
                   !.result = get_relevant_metadata(walk.store, walk.head,
                                                    walk.as_of, walk.fail_at)]
    /\ UNCHANGED <<cache, call, codec>>

WalkNext == GetRelevantMetadata

WalkSpec == WalkInit /\ [][WalkNext]_vars

(***************************************************************************)
(* From a pointer to a dataset.  The package holds two generations of      *)
(* ipfs_retrieval.py: src/ipfs_retrieval.py, the current one, and          *)
(* dclimate_zarr_client/ipfs_retrieval.py, the earlier one (suffix         *)
(* _legacy).  Requests are counted in the order a call makes them: the     *)
(* fail_at-th request of a call raises HTTPError (0: none does).           *)
(***************************************************************************)
\* as_of = None, the default of get_dataset_by_ipns_hash.
NoAsOf == -1

\* if as_of: (legacy line 135). None is falsy, every datetime is truthy.
Truthy(as_of) == as_of # NoAsOf

\* metadata["assets"]["analytic"]["href"]["/"] (legacy line 139): the content
\* id of the payload of snapshot id; payload ids lie beyond the snapshot ids.
AssetHref(store, id) == Len(store) + id

\* get_dataset_by_ipfs_hash(ipfs_hash) (legacy lines 107-118) and
\* xr.open_zarr(HAMT(root_node_id=...)) (current lines 184-187): the dataset
\* rooted at a content id.
DatasetAt(root) == [root |-> root]

NoDataset == [root |-> NoneHash]

DatasetResult(kind, dataset, snapshot, exc, fetched) ==
    [kind |-> kind, dataset |-> dataset, snapshot |-> snapshot, exc |-> exc,
     fetched |-> fetched]

\* Legacy _get_previous_hash_from_metadata, lines 27-41: link["rel"] == "previous".
get_previous_hash_from_metadata_legacy(metadata) ==
    LET matching == FilterLinks(metadata.links, {"previous"})
    IN IF matching = <<>> THEN NoneHash ELSE matching[1].href

\* Legacy _get_relevant_metadata, lines 81-104; requests made before the walk
\* count towards fail_at.
RECURSIVE WalkFromLegacy(_, _, _, _, _, _)
WalkFromLegacy(store, as_of, fail_at, ipfs_hash, fetched, before) ==
    LET log == Append(fetched, ipfs_hash)
    IN IF before + Len(log) = fail_at \/ ipfs_hash \notin DOMAIN store
       THEN WalkResult("raise", NoneHash, "HTTPError", log)
       ELSE LET cur_metadata == store[ipfs_hash]
                time_generated == Strptime(cur_metadata.updated)
                prev_hash == get_previous_hash_from_metadata_legacy(cur_metadata)
            IN IF time_generated <= as_of
               THEN WalkResult("return", ipfs_hash, "", log)
               ELSE IF prev_hash = NoneHash
                    THEN WalkResult("raise", NoneHash, "NoMetadataFoundError", log)
                    ELSE WalkFromLegacy(store, as_of, fail_at, prev_hash, log, before)

\* _get_single_metadata(ipfs_hash) as the n-th request of a call.
GetSingleMetadata(store, ipfs_hash, fail_at, n) ==
    IF n = fail_at \/ ipfs_hash \notin DOMAIN store
    THEN WalkResult("raise", NoneHash, "HTTPError", <<ipfs_hash>>)
    ELSE WalkResult("return", ipfs_hash, "", <<ipfs_hash>>)

\* Legacy get_dataset_by_ipns_hash(ipns_name_hash, as_of), lines 121-139:
\* request 1 is _resolve_ipns_name_hash, which gives head.
get_dataset_by_ipns_hash_legacy(store, head, as_of, fail_at) ==
    IF fail_at = 1
    THEN DatasetResult("raise", NoDataset, NoneHash, "HTTPError", <<>>)
    ELSE LET metadata == IF Truthy(as_of)
                         THEN WalkFromLegacy(store, as_of, fail_at, head, <<>>, 1)
                         ELSE GetSingleMetadata(store, head, fail_at, 2)
         IN IF metadata.kind = "return"
            THEN DatasetResult("return", DatasetAt(AssetHref(store, metadata.id)),
                               metadata.id, "", metadata.fetched)
            ELSE DatasetResult("raise", NoDataset, NoneHash, metadata.exc,
                               metadata.fetched)

\* Current get_dataset_by_ipns_hash(ipns_name_hash, as_of, gateway_uri), lines
\* 165-187: the dataset rooted at ipns_name_hash is opened; as_of is not read
\* and no snapshot is fetched.
get_dataset_by_ipns_hash(ipns_name_hash, as_of) ==
    DatasetResult("return", DatasetAt(ipns_name_hash), NoneHash, "", <<>>)

\* Faulty variant: the predecessor link of the head is followed once.
get_metadata_by_key_FollowsLink(name, store, head, fail_at) ==
    LET prev == get_previous_hash_from_metadata(store[head])
    IN IF prev = NoneHash
       THEN WalkResult("return", head, "", <<head>>)
       ELSE WalkResult("return", prev, "", <<head, prev>>)

\* get_metadata_by_key(key), lines 190-201: name is the outcome of
\* get_ipns_name_hash(key); request 1 is _resolve_ipns_name_hash, which gives
\* head; request 2 is the fetch of the head.
get_metadata_by_key(name, store, head, fail_at) ==
    IF name.kind # "return"
    THEN WalkResult("raise", NoneHash, name.exc, <<>>)
    ELSE IF fail_at = 1
         THEN WalkResult("raise", NoneHash, "HTTPError", <<>>)
         ELSE GetSingleMetadata(store, head, fail_at, 2)

\* geo_temporal_query(..., as_of), client.py lines 202-204: the caller's as_of
\* is handed to get_dataset_by_ipns_hash as it is.
ClientAsOf(as_of) == as_of

(***************************************************************************)
(* State machine of dataset resolution: one call per behaviour, its inputs *)
(* drawn initially.                                                        *)
(***************************************************************************)
DatasetInit ==
    /\ cache = [kind |-> "missing", doc |-> NoDoc]
    /\ call = NoCall
    /\ codec = NoCodec
    /\ \E store \in Stores, as_of \in AsOfValues \cup {NoAsOf}, fail_at \in 0..(MaxChain + 1) :
          walk = [op |-> "pending", store |-> store, head |-> Len(store),
                  as_of |-> as_of, fail_at |-> fail_at, name |-> FallThrough,
                  result |-> NoWalkResult]

GetDatasetByIpnsHashLegacy ==
    /\ walk.op = "pending"
    /\ walk' = [walk EXCEPT
                   !.op = "get_dataset_by_ipns_hash_legacy",
                   !.result = get_dataset_by_ipns_hash_legacy(
                                  walk.store, walk.head, ClientAsOf(walk.as_of),
                                  walk.fail_at)]
    /\ UNCHANGED <<cache, call, codec>>

\* The pointer handed to the current function names the latest payload.
GetDatasetByIpnsHash ==
    /\ walk.op = "pending"
    /\ walk' = [walk EXCEPT
                   !.op = "get_dataset_by_ipns_hash",
                   !.result = get_dataset_by_ipns_hash(
                                  AssetHref(walk.store, walk.head),
                                  ClientAsOf(walk.as_of))]
    /\ UNCHANGED <<cache, call, codec>>

GetMetadataByKey ==
    /\ walk.op = "pending"
    /\ \E name \in {ReturnPtr("p1"), Raise("DatasetNotFoundError")} :
          walk' = [walk EXCEPT
                      !.op = "get_metadata_by_key",
                      !.name = name,
                      !.result = get_metadata_by_key(name, walk.store, walk.head,
                                                     walk.fail_at)]
    /\ UNCHANGED <<cache, call, codec>>

DatasetNext == GetDatasetByIpnsHashLegacy \/ GetDatasetByIpnsHash \/ GetMetadataByKey

DatasetSpec == DatasetInit /\ [][DatasetNext]_vars


(***************************************************************************)
(* Link tags.  The walk is run on a chain whose predecessor links carry    *)
(* "previous", "prev" or a tag the walker does not know, and on the same   *)
(* chain with every "prev" rewritten to "previous"; by the walker of       *)
(* src/ipfs_retrieval.py or by the one of dclimate_zarr_client/            *)
(* ipfs_retrieval.py, which client.py imports.                             *)
(***************************************************************************)
\* A link relation that _get_previous_hash_from_metadata does not look for.
OtherRel == "related"

TaggedStores ==
    UNION {{[id \in 1..n |-> SnapshotDoc(id, secs[id], tags[id])] :
                secs \in [1..n -> 0..MaxSec], tags \in [1..n -> Tags \cup {OtherRel}]} :
           n \in 1..MaxChain}

RECURSIVE RetagLinks(_)
RetagLinks(links) ==
    IF links = <<>>
    THEN <<>>
    ELSE <<IF Head(links).rel \in Tags
           THEN Link("previous", Head(links).href)
           ELSE Head(links)>> \o RetagLinks(Tail(links))

\* The store with every link tagged "prev" tagged "previous" instead.
Retag(store) == [id \in DOMAIN store |-> [store[id] EXCEPT !.links = RetagLinks(@)]]

TagInit ==
    /\ cache = [kind |-> "missing", doc |-> NoDoc]
    /\ call = NoCall
    /\ codec = NoCodec
    /\ \E store \in TaggedStores, as_of \in AsOfValues, fail_at \in 0..MaxChain :
          walk = [op |-> "pending", store |-> store, head |-> Len(store),
                  as_of |-> as_of, fail_at |-> fail_at,
                  result |-> NoWalkResult, retagged |-> NoWalkResult]

GetRelevantMetadataTagged ==
    /\ walk.op = "pending"
    /\ walk' = [walk EXCEPT
                   !.op = "get_relevant_metadata_tagged",
                   !.result = get_relevant_metadata(walk.store, walk.head,
                                                    walk.as_of, walk.fail_at),
                   !.retagged = get_relevant_metadata(Retag(walk.store), walk.head,
                                                      walk.as_of, walk.fail_at)]
    /\ UNCHANGED <<cache, call, codec>>

\* The same two walks by _get_relevant_metadata of
\* dclimate_zarr_client/ipfs_retrieval.py, lines 81-104.
GetRelevantMetadataTaggedLegacy ==
    /\ walk.op = "pending"
    /\ walk' = [walk EXCEPT
                   !.op = "get_relevant_metadata_tagged_legacy",
                   !.result = WalkFromLegacy(walk.store, walk.as_of, walk.fail_at,
                                             walk.head, <<>>, 0),
                   !.retagged = WalkFromLegacy(Retag(walk.store), walk.as_of,
                                               walk.fail_at, walk.head, <<>>, 0)]
    /\ UNCHANGED <<cache, call, codec>>

TagNext == GetRelevantMetadataTagged \/ GetRelevantMetadataTaggedLegacy

TagSpec == TagInit /\ [][TagNext]_vars

(***************************************************************************)
(* The chunk codec, dclimate_zarr_client/encryption_codec.py.  A byte is   *)
(* modelled by one bit, so that changing a bit of a byte is changing the   *)
(* byte; the lengths of key, nonce and tag are those of the code.          *)
(***************************************************************************)
\* Longest plaintext.
MaxLen == 2

\* Number of distinct 32-byte keys.
NumKeys == 2

\* Number of distinct values get_random_bytes(24) can give.
NumNonces == 2

\* len(encryption_key) != 32, line 20.
KeyLen == 32

\* get_random_bytes(24), line 27; buf[:24], line 35.
NonceLen == 24

\* buf[24:40], line 35: the tag is 16 bytes.
TagLen == 16

Bit == 0..1

RECURSIVE BitStrings(_)
BitStrings(n) ==
    IF n = 0
    THEN {<<>>}
    ELSE {Append(b, x) : b \in BitStrings(n - 1), x \in Bit}

Plaintexts == UNION {BitStrings(n) : n \in 0..MaxLen}

\* The j-th nonce: j leading ones, then zeros.
NonceOf(j) == [i \in 1..NonceLen |-> IF i <= j THEN 1 ELSE 0]

Nonces == {NonceOf(j) : j \in 0..(NumNonces - 1)}

DefaultHeader == "dClimate-Zarr"

Headers == {"h1", DefaultHeader}

\* A config handed to from_config: it has a "header" entry or not.
NoHeader == ""

\* header.encode(), line 13: the bytes of the string, a value of another type.
StrEncode(header) == [utf8 |-> header]

\* Arguments of set_encryption_key: byte strings, character strings, integers.
BytesKey(len, id) == [type |-> "bytes", len |-> len, id |-> id, text |-> ""]

StrKey(text, len) == [type |-> "str", len |-> len, id |-> 0, text |-> text]

IntKey(text) == [type |-> "int", len |-> 0, id |-> 0, text |-> text]

\* _encryption_key = None, line 9.
NoKey == [type |-> "None", len |-> 0, id |-> 0, text |-> ""]

ValidKeys == {BytesKey(KeyLen, id) : id \in 1..NumKeys}

\* The configs handed to from_config: with or without a "header" entry, and
\* with or without a further entry holding a key (NoKey: without).
Configs ==
    {[header |-> h, key |-> k] :
        h \in Headers \cup {NoHeader}, k \in {NoKey, BytesKey(KeyLen, 1)}}

\* Byte strings of wrong lengths; the strings and the integer of
\* test_bad_encryption_keys; the hex string of the test fixture,
\* get_random_bytes(32).hex(); a string of 32 characters.
KeyArgs ==
    ValidKeys
    \cup {BytesKey(len, 0) : len \in {0, KeyLen - 1, KeyLen + 1}}
    \cup {StrKey("123Z", 4), StrKey("1234567890", 10),
          StrKey("hex of 32 bytes", 2 * KeyLen), StrKey("32 characters", KeyLen)}
    \cup {IntKey("123")}

\* What a call gives: a value or an exception with its message.
CodecResult(kind, value, exc, msg) ==
    [kind |-> kind, value |-> value, exc |-> exc, msg |-> msg]

CodecReturn(value) == CodecResult("return", value, "", "")

CodecRaise(exc, msg) == CodecResult("raise", <<>>, exc, msg)

NoCodecResult == CodecResult("none", <<>>, "", "")

(***************************************************************************)
(* ChaCha20_Poly1305 of the Crypto library, as the codec uses it: a stream *)
(* cipher keyed by key and nonce, and a tag over key, nonce, associated    *)
(* data and ciphertext.  The tag is an ideal one: each of its bytes stands *)
(* for the whole input, so the tags of two different inputs differ in      *)
(* every byte and no change of some bytes of one tag gives another.  A     *)
(* byte of the nonce, of the plaintext and of the ciphertext is one bit.   *)
(***************************************************************************)
RECURSIVE SumBits(_)
SumBits(bits) == IF bits = <<>> THEN 0 ELSE Head(bits) + SumBits(Tail(bits))

\* ChaCha20_Poly1305.new(key=..., nonce=...) takes a byte string of 32 bytes;
\* a character string is refused with TypeError.
KeyUsable(key) == key.type = "bytes" /\ key.len = KeyLen

Keystream(key, nonce, i) == (key.id + SumBits(nonce) + i) % 2

\* encrypt / decrypt: the data combined with the key stream.
StreamXor(key, nonce, data) ==
    [i \in 1..Len(data) |-> (data[i] + Keystream(key, nonce, i)) % 2]

\* digest: the tag of cipher.update(aad) and the ciphertext.
MacTag(key, nonce, aad, ciphertext) ==
    [i \in 1..TagLen |-> <<i, key, nonce, aad, ciphertext>>]

\* buf[a:b] of Python with a, b counted from 0.
Slice(buf, a, b) ==
    LET hi == IF b < Len(buf) THEN b ELSE Len(buf)
    IN IF a >= hi THEN <<>> ELSE [i \in 1..(hi - a) |-> buf[a + i]]

(***************************************************************************)
(* EncryptionCodec.  key is the class attribute _encryption_key, shared by *)
(* the instances; an instance is its header and encoded header.            *)
(***************************************************************************)
\* Faulty variant: a refused key is stored all the same.
set_encryption_key_StoresRefused(encryption_key, key) ==
    IF encryption_key.type \notin {"bytes", "str"}
    THEN [key |-> encryption_key, result |-> CodecRaise("TypeError", "has no len()")]
    ELSE IF encryption_key.len # KeyLen
         THEN [key |-> encryption_key,
               result |-> CodecRaise("ValueError", "Encryption key must be 32 bytes")]
         ELSE [key |-> encryption_key, result |-> CodecReturn(<<>>)]

\* set_encryption_key(cls, encryption_key), lines 17-22.  len() of an integer
\* raises TypeError; len() of a character string counts its characters.
set_encryption_key(encryption_key, key) ==
    IF encryption_key.type \notin {"bytes", "str"}
    THEN [key |-> key, result |-> CodecRaise("TypeError", "has no len()")]
    ELSE IF encryption_key.len # KeyLen
         THEN [key |-> key,
               result |-> CodecRaise("ValueError", "Encryption key must be 32 bytes")]
         ELSE [key |-> encryption_key, result |-> CodecReturn(<<>>)]

\* Faulty variant: every instance keeps the encoded default header.
Instance_DefaultHeader(header) ==
    [header |-> header, encoded_header |-> StrEncode(DefaultHeader)]

\* self.header and self._encoded_header, lines 12-13.
Instance(header) == [header |-> header, encoded_header |-> StrEncode(header)]

\* Faulty variant: the instance is built whether or not a key is set.
init_NoKeyCheck(header, key) == CodecReturn(Instance(header))

\* __init__(self, header), lines 11-15.
init(header, key) ==
    IF key = NoKey
    THEN CodecRaise("ValueError",
                    "Encryption key must be set before using EncryptionCodec.")
    ELSE CodecReturn(Instance(header))

\* Faulty variant: a key found in the config becomes the shared key.
from_config_TakesKey(config, key) ==
    LET header == IF config.header = NoHeader THEN DefaultHeader ELSE config.header
        taken == IF config.key # NoKey THEN config.key ELSE key
    IN [key |-> taken, result |-> init(header, taken)]

\* from_config(cls, config), lines 45-49: config.get("header", "dClimate-Zarr")
\* is the only entry read; the class attribute is not assigned.
from_config(config, key) ==
    LET header == IF config.header = NoHeader THEN DefaultHeader ELSE config.header
    IN [key |-> key, result |-> init(header, key)]

\* Faulty variant: the header is not given to the cipher.
encode_NoHeader(self, buf, nonce, key) ==
    IF ~KeyUsable(key)
    THEN CodecRaise("TypeError", "key cannot be passed to C code")
    ELSE LET ciphertext == StreamXor(key, nonce, buf)
             tag == MacTag(key, nonce, StrEncode(DefaultHeader), ciphertext)
         IN CodecReturn(nonce \o tag \o ciphertext)

\* Faulty variant: the nonce is derived from the buffer, not the random bytes.
encode_ContentNonce(self, buf, nonce, key) ==
    IF ~KeyUsable(key)
    THEN CodecRaise("TypeError", "key cannot be passed to C code")
    ELSE LET derived == NonceOf(SumBits(buf) % NumNonces)
             ciphertext == StreamXor(key, derived, buf)
             tag == MacTag(key, derived, self.encoded_header, ciphertext)
         IN CodecReturn(derived \o tag \o ciphertext)

\* Faulty variant: the cipher is keyed with one fixed key, not the shared one.
encode_FixedKey(self, buf, nonce, key) ==
    IF ~KeyUsable(key)
    THEN CodecRaise("TypeError", "key cannot be passed to C code")
    ELSE LET fixed == BytesKey(KeyLen, 1)
             ciphertext == StreamXor(fixed, nonce, buf)
             tag == MacTag(fixed, nonce, self.encoded_header, ciphertext)
         IN CodecReturn(nonce \o tag \o ciphertext)

\* encode(self, buf), lines 24-32; nonce is what get_random_bytes(24) gave.
encode(self, buf, nonce, key) ==
    IF ~KeyUsable(key)
    THEN CodecRaise("TypeError", "key cannot be passed to C code")
    ELSE LET ciphertext == StreamXor(key, nonce, buf)
             tag == MacTag(key, nonce, self.encoded_header, ciphertext)
         IN CodecReturn(nonce \o tag \o ciphertext)

\* No out argument: out=None.
NoOut == [given |-> FALSE, bytes |-> <<>>]

OutBuffer(bytes) == [given |-> TRUE, bytes |-> bytes]

\* io.BytesIO(plaintext).readinto(out), lines 40-42: out with its leading
\* bytes overwritten by as much of the plaintext as fits.
ReadInto(plaintext, out) ==
    [i \in 1..Len(out) |-> IF i <= Len(plaintext) THEN plaintext[i] ELSE out[i]]

\* Faulty variant: the ciphertext is decrypted and the tag is not verified.
decode_NoVerify(self, buf, out, key) ==
    LET nonce == Slice(buf, 0, NonceLen)
        ciphertext == Slice(buf, NonceLen + TagLen, Len(buf))
    IN IF Len(nonce) \notin {8, 12, NonceLen}
       THEN CodecRaise("ValueError", "Nonce must be 8, 12 or 24 bytes long")
       ELSE IF ~KeyUsable(key)
            THEN CodecRaise("TypeError", "key cannot be passed to C code")
            ELSE CodecReturn(StreamXor(key, nonce, ciphertext))

\* decode(self, buf, out=None), lines 34-43.  ChaCha20_Poly1305.new looks at
\* the length of the nonce before the key is handed to the cipher.
decode(self, buf, out, key) ==
    LET nonce == Slice(buf, 0, NonceLen)
        tag == Slice(buf, NonceLen, NonceLen + TagLen)
        ciphertext == Slice(buf, NonceLen + TagLen, Len(buf))
    IN IF Len(nonce) \notin {8, 12, NonceLen}
       THEN CodecRaise("ValueError", "Nonce must be 8, 12 or 24 bytes long")
       ELSE IF ~KeyUsable(key)
            THEN CodecRaise("TypeError", "key cannot be passed to C code")
            ELSE IF tag # MacTag(key, nonce, self.encoded_header, ciphertext)
                 THEN CodecRaise("ValueError", "MAC check failed")
                 ELSE LET plaintext == StreamXor(key, nonce, ciphertext)
                      IN IF out.given
                         THEN CodecReturn(ReadInto(plaintext, out.bytes))
                         ELSE CodecReturn(plaintext)

\* Faulty variant: the decrypted bytes are copied into out before the tag is
\* looked at.
OutAfterDecode_WritesUnverified(self, buf, out, key) ==
    IF out.given /\ KeyUsable(key)
    THEN ReadInto(StreamXor(key, Slice(buf, 0, NonceLen),
                            Slice(buf, NonceLen + TagLen, Len(buf))), out.bytes)
    ELSE out.bytes

\* The bytes of the caller's out buffer when decode has returned or raised:
\* readinto (line 41) is reached only when decrypt_and_verify (line 38) has
\* returned.
OutAfterDecode(self, buf, out, key) ==
    LET done == decode(self, buf, out, key)
    IN IF done.kind = "return" /\ out.given THEN done.value ELSE out.bytes

(***************************************************************************)
(* State machine of the codec: the class attribute, the instances built so *)
(* far, the frame last encoded, and the last call with its outcome.        *)
(***************************************************************************)
Outs == {NoOut, OutBuffer([i \in 1..MaxLen |-> 0])}

\* The buffers the calls of the state machine encode: empty, or of one byte.
ShortPlaintexts == BitStrings(0) \cup BitStrings(1)

CodecArg(key, header, buf, out) ==
    [key |-> key, header |-> header, buf |-> buf, out |-> out]

NoCodecArg == CodecArg(NoKey, "", <<>>, NoOut)

\* What the frame last encoded holds: the key it was encoded under, the
\* header of the encoding codec, the plaintext.
Sealed(key, header, plain) == [key |-> key, header |-> header, plain |-> plain]

NoSealed == Sealed(NoKey, "", <<>>)

\* The first instance built, with the key that was set when it was built
\* (NoFirst: no instance yet), after a construction with outcome done.
NoFirst == [header |-> "", key |-> NoKey]

FirstAfter(first, done, key) ==
    IF done.kind = "return" /\ first = NoFirst
    THEN [header |-> done.value.header, key |-> key]
    ELSE first

CodecInit ==
    /\ cache = [kind |-> "missing", doc |-> NoDoc]
    /\ call = NoCall
    /\ walk = NoWalk
    /\ codec = [op |-> "none", key |-> NoKey, before |-> NoKey, instances |-> {},
                first |-> NoFirst,
                frame |-> <<>>, sealed |-> NoSealed,
                arg |-> NoCodecArg, result |-> NoCodecResult]

SetEncryptionKey ==
    /\ \E encryption_key \in KeyArgs :
          LET done == set_encryption_key(encryption_key, codec.key)
          IN codec' = [codec EXCEPT
                          !.op = "set_encryption_key",
                          !.before = codec.key,
                          !.key = done.key,
                          !.arg = CodecArg(encryption_key, "", <<>>, NoOut),
                          !.result = done.result]
    /\ UNCHANGED <<cache, call, walk>>

\* EncryptionCodec(header): the instance exists when __init__ returns.
Construct ==
    /\ \E header \in Headers :
          LET done == init(header, codec.key)
          IN codec' = [codec EXCEPT
                          !.op = "__init__",
                          !.before = codec.key,
                          !.instances = IF done.kind = "return"
                                        THEN @ \cup {done.value} ELSE @,
                          !.first = FirstAfter(@, done, codec.key),
                          !.arg = CodecArg(NoKey, header, <<>>, NoOut),
                          !.result = done]
    /\ UNCHANGED <<cache, call, walk>>

FromConfig ==
    /\ \E config \in Configs :
          LET done == from_config(config, codec.key)
          IN codec' = [codec EXCEPT
                          !.op = "from_config",
                          !.before = codec.key,
                          !.key = done.key,
                          !.instances = IF done.result.kind = "return"
                                        THEN @ \cup {done.result.value} ELSE @,
                          !.first = FirstAfter(@, done.result, done.key),
                          !.arg = CodecArg(config.key, config.header, <<>>, NoOut),
                          !.result = done.result]
    /\ UNCHANGED <<cache, call, walk>>

Encode ==
    /\ \E self \in codec.instances, buf \in ShortPlaintexts, nonce \in Nonces :
          LET done == encode(self, buf, nonce, codec.key)
          IN codec' = [codec EXCEPT
                          !.op = "encode",
                          !.before = codec.key,
                          !.frame = IF done.kind = "return" THEN done.value ELSE @,
                          !.sealed = IF done.kind = "return"
                                     THEN Sealed(codec.key, self.header, buf) ELSE @,
                          !.arg = CodecArg(NoKey, self.header, buf, NoOut),
                          !.result = done]
    /\ UNCHANGED <<cache, call, walk>>

\* decode of the frame last encoded (of the empty frame when there is none).
Decode ==
    /\ \E self \in codec.instances, out \in Outs :
          LET done == decode(self, codec.frame, out, codec.key)
          IN codec' = [codec EXCEPT
                          !.op = "decode",
                          !.before = codec.key,
                          !.arg = CodecArg(NoKey, self.header, codec.frame, out),
                          !.result = done]
    /\ UNCHANGED <<cache, call, walk>>

CodecNext == SetEncryptionKey \/ Construct \/ FromConfig \/ Encode \/ Decode

CodecSpec == CodecInit /\ [][CodecNext]_vars

(***************************************************************************)
(* Frames.  A codec with header enc_header encodes one frame; on its way   *)
(* to the decoder one byte of the frame may be changed and the shared key  *)
(* may be replaced by set_encryption_key; a codec with header dec_header   *)
(* then decodes what arrives.  Each call is a step.                        *)
(***************************************************************************)
\* A byte of the tag given another value.
ChangedTagByte(byte) == <<0, byte>>

\* The frame buf with the byte at position flip, counted from 1, changed: a
\* bit of the nonce or of the ciphertext inverted, a byte of the tag replaced.
Flip(buf, flip) ==
    [i \in 1..Len(buf) |->
        IF i # flip
        THEN buf[i]
        ELSE IF i \in (NonceLen + 1)..(NonceLen + TagLen)
             THEN ChangedTagByte(buf[i])
             ELSE 1 - buf[i]]

FrameInit ==
    /\ cache = [kind |-> "missing", doc |-> NoDoc]
    /\ call = NoCall
    /\ walk = NoWalk
    /\ \E key \in ValidKeys, enc_header \in Headers, dec_header \in Headers,
          plain \in Plaintexts, nonce \in Nonces, out \in Outs :
          codec = [op |-> "pending", key |-> key, enc_key |-> key,
                   enc_header |-> enc_header, dec_header |-> dec_header,
                   plain |-> plain, nonce |-> nonce, out |-> out, flip |-> 0,
                   frame |-> <<>>, buf |-> <<>>,
                   out_after |-> out.bytes, result |-> NoCodecResult]

\* encode(plain) by the codec with header enc_header.
FrameEncode ==
    /\ codec.op = "pending"
    /\ LET encoded == encode(Instance(codec.enc_header), codec.plain, codec.nonce,
                             codec.key)
       IN codec' = [codec EXCEPT
                       !.op = "encode",
                       !.enc_key = codec.key,
                       !.frame = encoded.value,
                       !.buf = encoded.value]
    /\ UNCHANGED <<cache, call, walk>>

\* One byte of the frame is changed between encode and decode.
FrameTamper ==
    /\ codec.op = "encode"
    /\ \E flip \in 1..Len(codec.frame) :
          codec' = [codec EXCEPT
                       !.op = "tamper",
                       !.flip = flip,
                       !.buf = Flip(codec.frame, flip)]
    /\ UNCHANGED <<cache, call, walk>>

\* set_encryption_key(another key) between encode and decode.
FrameSetKey ==
    /\ codec.op \in {"encode", "tamper"}
    /\ \E encryption_key \in ValidKeys \ {codec.key} :
          codec' = [codec EXCEPT
                       !.op = "set_encryption_key",
                       !.key = set_encryption_key(encryption_key, codec.key).key]
    /\ UNCHANGED <<cache, call, walk>>

\* decode(buf, out) by the codec with header dec_header.
FrameDecode ==
    /\ codec.op \in {"encode", "tamper", "set_encryption_key"}
    /\ codec' = [codec EXCEPT
                    !.op = "decode",
                    !.out_after = OutAfterDecode(Instance(codec.dec_header),
                                                 codec.buf, codec.out, codec.key),
                    !.result = decode(Instance(codec.dec_header), codec.buf,
                                      codec.out, codec.key)]
    /\ UNCHANGED <<cache, call, walk>>

FrameNext == FrameEncode \/ FrameTamper \/ FrameSetKey \/ FrameDecode

FrameSpec == FrameInit /\ [][FrameNext]_vars

(***************************************************************************)
(* Nonces.  A run of encode calls under one key, on codecs of any header;  *)
(* each call is logged with the bytes get_random_bytes(24) gave it.        *)
(***************************************************************************)
\* Longest run of encode calls.
MaxEncodes == 3

NonceInit ==
    /\ cache = [kind |-> "missing", doc |-> NoDoc]
    /\ call = NoCall
    /\ walk = NoWalk
    /\ \E key \in ValidKeys : codec = [op |-> "none", key |-> key, log |-> <<>>]

EncodeAgain ==
    /\ Len(codec.log) < MaxEncodes
    /\ \E header \in Headers, buf \in ShortPlaintexts, nonce \in Nonces :
          LET self == init(header, codec.key).value
              done == encode(self, buf, nonce, codec.key)
          IN codec' = [codec EXCEPT
                          !.op = "encode",
                          !.log = Append(@, [random |-> nonce, plain |-> buf,
                                             frame |-> done.value])]
    /\ UNCHANGED <<cache, call, walk>>

NonceNext == EncodeAgain

NonceSpec == NonceInit /\ [][NonceNext]_vars

(***************************************************************************)
(* Outage.  get_ipns_name_hash is called while the registry answers with a *)
(* mapping holding the key, and called again when the registry has become  *)
(* unreachable.                                                            *)
(***************************************************************************)
OutageInit ==
    /\ cache \in CacheStates
    /\ call = [op |-> "none", pc |-> "none", phase |-> "none", key |-> "",
               fresh |-> EmptyMapping,
               registry |-> [kind |-> "none", doc |-> NoDoc],
               before |-> [kind |-> "missing", doc |-> NoDoc],
               opened |-> [kind |-> "missing", doc |-> NoDoc],
               result |-> FallThrough]
    /\ walk = NoWalk
    /\ codec = NoCodec

\* The call that succeeds against the registry; the function writes no file
\* (lines 96-103) and does not come to the except branch, so cids.json is
\* not looked at and stays as it is.
ResolveOnline ==
    /\ call.phase = "none"
    /\ \E key \in Keys, fresh \in Mappings :
          /\ key \in DOMAIN fresh
          /\ call' = [call EXCEPT
                         !.op = "get_ipns_name_hash", !.pc = "done",
                         !.phase = "online",
                         !.key = key, !.fresh = fresh,
                         !.registry = [kind |-> "json", doc |-> JsonObject(fresh)],
                         !.before = cache, !.opened = cache,
                         !.result = get_ipns_name_hash(
                                        key, [kind |-> "json", doc |-> JsonObject(fresh)],
                                        cache, cache)]
    /\ UNCHANGED <<cache, walk, codec>>

\* The call made after it, the registry being unreachable: up to
\* os.path.exists, and to its end when there is no file to open.  From
\* open(cache_file) on the call goes as GetIpnsNameHashOpen, and the file may
\* be changed in between as in CacheChangedBeforeOpen.
ResolveInOutage ==
    /\ call.phase = "online"
    /\ \E key \in Keys :
          LET reg == [kind |-> "network_error", doc |-> NoDoc]
          IN call' = IF ReachesOpen(FallbackExcept("get_ipns_name_hash"), reg, cache)
                     THEN [call EXCEPT !.phase = "outage", !.pc = "open",
                                       !.key = key, !.registry = reg,
                                       !.before = cache, !.result = FallThrough]
                     ELSE [call EXCEPT !.phase = "outage", !.pc = "done",
                                       !.key = key, !.registry = reg,
                                       !.before = cache, !.opened = cache,
                                       !.result = get_ipns_name_hash(key, reg,
                                                                     cache, cache)]
    /\ UNCHANGED <<cache, walk, codec>>

OutageNext ==
    \/ ResolveOnline
    \/ ResolveInOutage
    \/ GetIpnsNameHashOpen
    \/ CacheChangedBeforeOpen

OutageSpec == OutageInit /\ [][OutageNext]_vars

(***************************************************************************)
(* Threads.  Several threads call encode and decode on codecs sharing the  *)
(* key, each call advancing statement by statement; no thread calls        *)
(* set_encryption_key.  The names raw, nonce, tag, ciphertext, cipher and  *)
(* plaintext are local to a call: each call has its own.                   *)
(***************************************************************************)
Threads == {"t1", "t2"}

\* Faulty variant: the calls keep their working values in one shared place
\* (attributes of a codec the threads share).
LocalsOf_Shared(t) == "t1"

\* Where the call of thread t keeps its local names: in its own frame.
LocalsOf(t) == t

\* ChaCha20_Poly1305.new(key=..., nonce=...): a cipher object.
CipherNew(key, nonce) == [key |-> key, nonce |-> nonce, aad |-> StrEncode("")]

\* cipher.update(data): the associated data.
CipherUpdate(cipher, aad) == [cipher EXCEPT !.aad = aad]

\* cipher.encrypt_and_digest(data).
EncryptAndDigest(cipher, data) ==
    LET ciphertext == StreamXor(cipher.key, cipher.nonce, data)
    IN [ciphertext |-> ciphertext,
        tag |-> MacTag(cipher.key, cipher.nonce, cipher.aad, ciphertext)]

\* cipher.decrypt_and_verify(ciphertext, tag).
DecryptAndVerify(cipher, ciphertext, tag) ==
    IF tag # MacTag(cipher.key, cipher.nonce, cipher.aad, ciphertext)
    THEN CodecRaise("ValueError", "MAC check failed")
    ELSE CodecReturn(StreamXor(cipher.key, cipher.nonce, ciphertext))

NoLocals ==
    [raw |-> <<>>, nonce |-> <<>>, tag |-> <<>>, ciphertext |-> <<>>,
     cipher |-> CipherNew(NoKey, <<>>)]

\* The calls the threads make: encode of a buffer, or decode of a frame that
\* an earlier encode produced from plain under the key.
EncodeCall(header, buf) ==
    [op |-> "encode", header |-> header, buf |-> buf, plain |-> buf,
     drawn |-> <<>>, pc |-> "e_raw", result |-> NoCodecResult]

DecodeCall(header, frame, plain) ==
    [op |-> "decode", header |-> header, buf |-> frame, plain |-> plain,
     drawn |-> <<>>, pc |-> "d_split", result |-> NoCodecResult]

ThreadCalls(key) ==
    {EncodeCall(h, buf) : h \in Headers, buf \in ShortPlaintexts}
    \cup {DecodeCall(h, encode(Instance(by), plain, NonceOf(0), key).value, plain) :
            h \in Headers, by \in Headers, plain \in ShortPlaintexts}

ThreadInit ==
    /\ cache = [kind |-> "missing", doc |-> NoDoc]
    /\ call = NoCall
    /\ walk = NoWalk
    /\ \E key \in ValidKeys :
          \E calls \in [Threads -> ThreadCalls(key)] :
             codec = [op |-> "threads", key |-> key, thread |-> calls,
                      locals |-> [t \in Threads |-> NoLocals]]

\* The locals of the call of thread t.
Mine(t) == codec.locals[LocalsOf(t)]

\* raw = io.BytesIO(); raw.write(buf), lines 25-26.
EncodeRaw ==
    /\ \E t \in Threads :
          /\ codec.thread[t].pc = "e_raw"
          /\ codec' = [codec EXCEPT
                          !.locals[LocalsOf(t)].raw = codec.thread[t].buf,
                          !.thread[t].pc = "e_nonce"]
    /\ UNCHANGED <<cache, call, walk>>

\* nonce = get_random_bytes(24), line 27.
EncodeNonce ==
    /\ \E t \in Threads, nonce \in Nonces :
          /\ codec.thread[t].pc = "e_nonce"
          /\ codec' = [codec EXCEPT
                          !.locals[LocalsOf(t)].nonce = nonce,
                          !.thread[t].drawn = nonce,
                          !.thread[t].pc = "e_new"]
    /\ UNCHANGED <<cache, call, walk>>

\* cipher = ChaCha20_Poly1305.new(key=self._encryption_key, nonce=nonce), line 28.
EncodeNew ==
    /\ \E t \in Threads :
          /\ codec.thread[t].pc = "e_new"
          /\ codec' = [codec EXCEPT
                          !.locals[LocalsOf(t)].cipher = CipherNew(codec.key, Mine(t).nonce),
                          !.thread[t].pc = "e_update"]
    /\ UNCHANGED <<cache, call, walk>>

\* cipher.update(self._encoded_header), line 29.
EncodeUpdate ==
    /\ \E t \in Threads :
          /\ codec.thread[t].pc = "e_update"
          /\ codec' = [codec EXCEPT
                          !.locals[LocalsOf(t)].cipher =
                              CipherUpdate(Mine(t).cipher,
                                           Instance(codec.thread[t].header).encoded_header),
                          !.thread[t].pc = "e_digest"]
    /\ UNCHANGED <<cache, call, walk>>

\* ciphertext, tag = cipher.encrypt_and_digest(raw.getbuffer());
\* return nonce + tag + ciphertext, lines 30-32.
EncodeDigest ==
    /\ \E t \in Threads :
          /\ codec.thread[t].pc = "e_digest"
          /\ LET sealed == EncryptAndDigest(Mine(t).cipher, Mine(t).raw)
             IN codec' = [codec EXCEPT
                             !.locals[LocalsOf(t)].ciphertext = sealed.ciphertext,
                             !.locals[LocalsOf(t)].tag = sealed.tag,
                             !.thread[t].result =
                                 CodecReturn(Mine(t).nonce \o sealed.tag \o sealed.ciphertext),
                             !.thread[t].pc = "done"]
    /\ UNCHANGED <<cache, call, walk>>

\* nonce, tag, ciphertext = buf[:24], buf[24:40], buf[40:], line 35.
DecodeSplit ==
    /\ \E t \in Threads :
          /\ codec.thread[t].pc = "d_split"
          /\ LET buf == codec.thread[t].buf
             IN codec' = [codec EXCEPT
                             !.locals[LocalsOf(t)].nonce = Slice(buf, 0, NonceLen),
                             !.locals[LocalsOf(t)].tag = Slice(buf, NonceLen, NonceLen + TagLen),
                             !.locals[LocalsOf(t)].ciphertext =
                                 Slice(buf, NonceLen + TagLen, Len(buf)),
                             !.thread[t].pc = "d_new"]
    /\ UNCHANGED <<cache, call, walk>>

\* cipher = ChaCha20_Poly1305.new(key=self._encryption_key, nonce=nonce), line 36.
DecodeNew ==
    /\ \E t \in Threads :
          /\ codec.thread[t].pc = "d_new"
          /\ codec' = [codec EXCEPT
                          !.locals[LocalsOf(t)].cipher = CipherNew(codec.key, Mine(t).nonce),
                          !.thread[t].pc = "d_update"]
    /\ UNCHANGED <<cache, call, walk>>

\* cipher.update(self._encoded_header), line 37.
DecodeUpdate ==
    /\ \E t \in Threads :
          /\ codec.thread[t].pc = "d_update"
          /\ codec' = [codec EXCEPT
                          !.locals[LocalsOf(t)].cipher =
                              CipherUpdate(Mine(t).cipher,
                                           Instance(codec.thread[t].header).encoded_header),
                          !.thread[t].pc = "d_verify"]
    /\ UNCHANGED <<cache, call, walk>>

\* plaintext = cipher.decrypt_and_verify(ciphertext, tag); return plaintext,
\* lines 38-43 with out=None.
DecodeVerify ==
    /\ \E t \in Threads :
          /\ codec.thread[t].pc = "d_verify"
          /\ codec' = [codec EXCEPT
                          !.thread[t].result =
                              DecryptAndVerify(Mine(t).cipher, Mine(t).ciphertext, Mine(t).tag),
                          !.thread[t].pc = "done"]
    /\ UNCHANGED <<cache, call, walk>>

ThreadNext ==
    \/ EncodeRaw \/ EncodeNonce \/ EncodeNew \/ EncodeUpdate \/ EncodeDigest
    \/ DecodeSplit \/ DecodeNew \/ DecodeUpdate \/ DecodeVerify

ThreadSpec == ThreadInit /\ [][ThreadNext]_vars

(***************************************************************************)
(* Two walks of one chain.  A behaviour walks the same chain for two       *)
(* instants as_of1 <= as_of2, with the current or with the legacy          *)
(* _get_relevant_metadata; every fetch succeeds.                           *)
(***************************************************************************)
MonoInit ==
    /\ cache = [kind |-> "missing", doc |-> NoDoc]
    /\ call = NoCall
    /\ codec = NoCodec
    /\ \E store \in Stores, as_of1 \in AsOfValues, as_of2 \in AsOfValues :
          /\ as_of1 <= as_of2
          /\ walk = [op |-> "pending", store |-> store, head |-> Len(store),
                     as_of1 |-> as_of1, as_of2 |-> as_of2,
                     result1 |-> NoWalkResult, result2 |-> NoWalkResult]

WalkTwice ==
    /\ walk.op = "pending"
    /\ walk' = [walk EXCEPT
                   !.op = "walked",
                   !.result1 = get_relevant_metadata(walk.store, walk.head,
                                                     walk.as_of1, 0),
                   !.result2 = get_relevant_metadata(walk.store, walk.head,
                                                     walk.as_of2, 0)]
    /\ UNCHANGED <<cache, call, codec>>

WalkTwiceLegacy ==
    /\ walk.op = "pending"
    /\ walk' = [walk EXCEPT
                   !.op = "walked_legacy",
                   !.result1 = WalkFromLegacy(walk.store, walk.as_of1, 0,
                                              walk.head, <<>>, 0),
                   !.result2 = WalkFromLegacy(walk.store, walk.as_of2, 0,
                                              walk.head, <<>>, 0)]
    /\ UNCHANGED <<cache, call, codec>>

MonoNext == WalkTwice \/ WalkTwiceLegacy

MonoSpec == MonoInit /\ [][MonoNext]_vars

(***************************************************************************)
(* Listing and resolving.  Each call of list_datasets and of               *)
(* get_ipns_name_hash makes its own request, to which the registry gives   *)
(* its own answer, and looks at cids.json itself, once with os.path.exists *)
(* and once with open(); the file may be rewritten between two calls and   *)
(* between the two looks of one call.  A resolution records whether it met *)
(* the state the latest listing met: the same registry answer, the file    *)
(* not rewritten since that listing began.                                 *)
(***************************************************************************)
NoListing == [registry |-> [kind |-> "none", doc |-> NoDoc], fresh |-> FALSE,
              result |-> FallThrough]

NoResolution == [key |-> "", same_state |-> FALSE, result |-> FallThrough]

\* The call in progress: its arguments and what os.path.exists found.
NoPending == [key |-> "", registry |-> [kind |-> "none", doc |-> NoDoc],
              before |-> [kind |-> "missing", doc |-> NoDoc]]

AgreeInit ==
    /\ cache \in CacheStates
    /\ walk = NoWalk
    /\ codec = NoCodec
    /\ call = [op |-> "none", pc |-> "none", pending |-> NoPending,
               listed |-> NoListing, resolved |-> NoResolution]

\* list_datasets() up to os.path.exists, and to its end when it does not come
\* to open the file.
AgreeList ==
    /\ call.pc # "open"
    /\ \E reg \in RegistryOutcomes :
          call' = IF ReachesOpen(FallbackExcept("list_datasets"), reg, cache)
                  THEN [op |-> "list_datasets", pc |-> "open",
                        pending |-> [key |-> "", registry |-> reg, before |-> cache],
                        listed |-> [registry |-> reg, fresh |-> TRUE,
                                    result |-> FallThrough],
                        resolved |-> NoResolution]
                  ELSE [op |-> "list_datasets", pc |-> "done",
                        pending |-> NoPending,
                        listed |-> [registry |-> reg, fresh |-> TRUE,
                                    result |-> list_datasets(reg, cache, cache)],
                        resolved |-> NoResolution]
    /\ UNCHANGED <<cache, walk, codec>>

\* list_datasets from open(cache_file) on.
AgreeListOpen ==
    /\ call.op = "list_datasets"
    /\ call.pc = "open"
    /\ call' = [call EXCEPT
                   !.pc = "done",
                   !.pending = NoPending,
                   !.listed.result = list_datasets(call.pending.registry,
                                                   call.pending.before, cache)]
    /\ UNCHANGED <<cache, walk, codec>>

\* get_ipns_name_hash(key) up to os.path.exists, and to its end when it does
\* not come to open the file.
AgreeResolve ==
    /\ call.pc # "open"
    /\ \E key \in Keys, reg \in RegistryOutcomes :
          call' = IF ReachesOpen(FallbackExcept("get_ipns_name_hash"), reg, cache)
                  THEN [call EXCEPT
                           !.op = "get_ipns_name_hash", !.pc = "open",
                           !.pending = [key |-> key, registry |-> reg,
                                        before |-> cache],
                           !.resolved = NoResolution]
                  ELSE [call EXCEPT
                           !.op = "get_ipns_name_hash", !.pc = "done",
                           !.resolved =
                               [key |-> key,
                                same_state |-> call.listed.fresh
                                                  /\ reg = call.listed.registry,
                                result |-> get_ipns_name_hash(key, reg, cache, cache)]]
    /\ UNCHANGED <<cache, walk, codec>>

\* get_ipns_name_hash from open(cache_file) on.
AgreeResolveOpen ==
    /\ call.op = "get_ipns_name_hash"
    /\ call.pc = "open"
    /\ call' = [call EXCEPT
                   !.pc = "done",
                   !.pending = NoPending,
                   !.resolved =
                       [key |-> call.pending.key,
                        same_state |-> call.listed.fresh
                                          /\ call.pending.registry = call.listed.registry,
                        result |-> get_ipns_name_hash(call.pending.key,
                                                      call.pending.registry,
                                                      call.pending.before, cache)]]
    /\ UNCHANGED <<cache, walk, codec>>

\* cids.json is replaced, removed or damaged, between two calls or between
\* the two looks of one call.
CacheRewritten ==
    /\ cache' \in CacheStates \ {cache}
    /\ call' = [call EXCEPT !.listed.fresh = FALSE]
    /\ UNCHANGED <<walk, codec>>

AgreeNext ==
    \/ AgreeList \/ AgreeListOpen
    \/ AgreeResolve \/ AgreeResolveOpen
    \/ CacheRewritten

AgreeSpec == AgreeInit /\ [][AgreeNext]_vars

(***************************************************************************)
(* Properties of the resolver.                                             *)
(***************************************************************************)
IsGet == call.op = "get_ipns_name_hash" /\ call.pc = "done"

IsList == call.op = "list_datasets" /\ call.pc = "done"

\* The file was not touched between os.path.exists and open().
Steady == call.opened = call.before

\* The registry call failed: connection error, error status, or a body that
\* does not parse as JSON.
RegistryFailed(reg) == reg.kind \in {"network_error", "http_error", "bad_json"}

\* The registry answered with JSON that is not an object.
RegistryNotObject(reg) == reg.kind = "json" /\ reg.doc.kind # "object"

IsMapping(x) == x.kind = "json" /\ x.doc.kind = "object"

HasKey(x, key) == IsMapping(x) /\ key \in DOMAIN x.doc.map

\* JSON that is not an object and does not mention the key either.
NotObjectWithoutKey(x, key) ==
    x.kind = "json" /\ x.doc.kind # "object" /\ key \notin x.doc.items

DatasetNotFound == Raise("DatasetNotFoundError")

\* C1 (as claimed): for a key absent from both sources, every registry
\* outcome (reachable without the key, unreachable, malformed payload) with
\* every cache state (missing, malformed or empty, valid but lacking the key)
\* ends with DatasetNotFoundError.
C1_AbsentKeyEndsInDatasetNotFound ==
    (/\ IsGet
     /\ Steady
     /\ \/ RegistryFailed(call.registry)
        \/ NotObjectWithoutKey(call.registry, call.key)
        \/ (IsMapping(call.registry) /\ ~HasKey(call.registry, call.key))
     /\ \/ call.before.kind \in {"missing", "empty", "bad_json"}
        \/ (IsMapping(call.before) /\ ~HasKey(call.before, call.key)))
        => call.result = DatasetNotFound

\* C1, the part the code does keep: no pointer is ever returned for a key that
\* neither the registry mapping nor the cached mapping holds.
C1_NeverPointerForAbsentKey ==
    (IsGet /\ ~HasKey(call.registry, call.key) /\ ~HasKey(call.opened, call.key))
        => call.result.kind # "return"

\* C2: with the registry request failing by a network error and the cache file
\* holding the key (and staying in place while the call reads it), the call
\* returns exactly the cached pointer.
C2_NetworkErrorReturnsCachedPointer ==
    (IsGet /\ Steady /\ call.registry.kind = "network_error"
        /\ HasKey(call.before, call.key))
        => call.result = ReturnPtr(call.before.doc.map[call.key])

C2_Witness ==
    /\ IsGet
    /\ call.registry.kind = "network_error"
    /\ HasKey(call.before, call.key)
    /\ call.result.kind = "return"

\* C3 (as claimed): whenever the registry fails (network error, error status,
\* unparseable body, or JSON that is not a key-to-pointer object) nothing of
\* that failure reaches the caller and the result is the one the cache alone
\* determines.
C3_RegistryFailureIsNonFatal ==
    (IsGet /\ (RegistryFailed(call.registry) \/ RegistryNotObject(call.registry)))
        => call.result = LocalFallback(call.key, call.before, call.opened)

\* C4 (as claimed): after a registry failure every failure of the cache (file
\* missing, unreadable, empty, malformed, or lacking the key) is surfaced as
\* DatasetNotFoundError and as nothing else.
C4_CacheFailureIsDatasetNotFound ==
    (/\ IsGet
     /\ Steady
     /\ RegistryFailed(call.registry)
     /\ \/ call.before.kind \in {"missing", "unreadable", "directory", "empty",
                                 "bad_json", "not_utf8", "too_deep", "big_int"}
        \/ (IsMapping(call.before) /\ ~HasKey(call.before, call.key)))
        => call.result = DatasetNotFound

\* C5: when the fetched mapping holds the key, the pointer of the fetched
\* mapping is returned, whatever the cache holds.
C5_FreshMappingWins ==
    (IsGet /\ HasKey(call.registry, call.key))
        => call.result = ReturnPtr(call.registry.doc.map[call.key])

C5_Witness ==
    /\ IsGet
    /\ HasKey(call.registry, call.key)
    /\ HasKey(call.before, call.key)
    /\ call.before.doc.map[call.key] # call.registry.doc.map[call.key]
    /\ call.result.kind = "return"

\* C6: when the fetch succeeds and the fetched mapping lacks the key, the call
\* fails with DatasetNotFoundError even if the cache holds the key.
C6_CacheIgnoredWhenRegistryAnswers ==
    (IsGet /\ IsMapping(call.registry) /\ ~HasKey(call.registry, call.key))
        => call.result = DatasetNotFound

C6_Witness ==
    /\ IsGet
    /\ IsMapping(call.registry)
    /\ ~HasKey(call.registry, call.key)
    /\ HasKey(call.before, call.key)
    /\ call.result.kind = "raise"

\* The mapping cids.json stores, a missing file counting as the empty mapping.
StoredMapping(c) == IF c.kind = "missing" THEN EmptyMapping ELSE c.doc.map

\* C7 (as claimed): the cache file is written exactly when the freshly fetched
\* registry mapping differs from the stored one (a missing file counting as
\* the empty mapping): after a call that fetched a mapping equal to the stored
\* one the file is as it was, and after a call that fetched a different one
\* the file holds the fetched mapping.
C7_CacheWrittenExactlyWhenDifferent ==
    (/\ IsGet \/ IsList
     /\ IsMapping(call.registry)
     /\ call.before.kind = "missing" \/ IsMapping(call.before))
        => IF StoredMapping(call.before) = call.registry.doc.map
           THEN cache = call.before
           ELSE cache = CacheOf(call.registry.doc.map)

\* C7, the part the code does keep: a call that fetched a mapping leaves the
\* file as it found it, whether the two agree or not.
C7_FetchNeverWrites ==
    ((IsGet \/ IsList) /\ IsMapping(call.registry)) => cache = call.before

\* C8: list_datasets returns the keys of the registry mapping when the fetch
\* succeeds, the keys of the cached mapping when the registry fails and the
\* cache parses, and raises RuntimeError exactly when the registry fails and
\* the cache is missing, empty or not JSON.  The file is taken to stay as it
\* is while the call reads it; when another process changes it in between,
\* RuntimeError still comes only from a failed registry with a file that is
\* missing, or empty or not JSON when read.
C8_ListFollowsFallbackPolicy ==
    IsList =>
        /\ IsMapping(call.registry)
              => call.result = ReturnKeys(DOMAIN call.registry.doc.map)
        /\ (RegistryFailed(call.registry) /\ IsMapping(call.before) /\ Steady)
              => call.result = ReturnKeys(DOMAIN call.before.doc.map)
        /\ Steady
              => (call.result = Raise("RuntimeError")
                     <=> (/\ RegistryFailed(call.registry)
                          /\ call.before.kind \in {"missing", "empty", "bad_json"}))
        /\ call.result = Raise("RuntimeError")
              => (/\ RegistryFailed(call.registry)
                  /\ \/ call.before.kind = "missing"
                     \/ call.opened.kind \in {"empty", "bad_json"})

C8_Witness ==
    /\ IsList
    /\ call.registry.kind = "bad_json"
    /\ IsMapping(call.before)
    /\ call.before.doc.map # EmptyMapping
    /\ call.result.kind = "return_keys"

(***************************************************************************)
(* Properties of the walker.                                               *)
(***************************************************************************)
WalkDone == walk.op = "get_relevant_metadata"

\* The snapshots reachable from id, head first, by their predecessor links.
RECURSIVE ChainFrom(_, _)
ChainFrom(store, id) ==
    IF id = NoneHash \/ id \notin DOMAIN store
    THEN <<>>
    ELSE <<id>> \o ChainFrom(store, get_previous_hash_from_metadata(store[id]))

WalkChain == ChainFrom(walk.store, walk.head)

\* Creation instant of the i-th snapshot of the chain.
CreatedAt(i) == Strptime(walk.store[WalkChain[i]].updated)

\* Positions of the chain whose snapshot was created at or before as_of.
AtOrBefore == {i \in 1..Len(WalkChain) : CreatedAt(i) <= walk.as_of}

FirstAtOrBefore == CHOOSE i \in AtOrBefore : \A j \in AtOrBefore : i <= j

\* No fetch among the first n of the walk fails.
FetchesSucceed(n) == walk.fail_at = 0 \/ walk.fail_at > n

\* C9: the walk returns the first snapshot, head to root, created at or before
\* as_of (equality included) whenever the fetches up to it succeed, and it
\* never returns any other snapshot: none created after as_of, none behind an
\* earlier match.
C9_ReturnsFirstAtOrBefore ==
    WalkDone =>
        /\ (AtOrBefore # {} /\ FetchesSucceed(FirstAtOrBefore))
              => /\ walk.result.kind = "return"
                 /\ walk.result.id = WalkChain[FirstAtOrBefore]
        /\ walk.result.kind = "return"
              => /\ AtOrBefore # {}
                 /\ walk.result.id = WalkChain[FirstAtOrBefore]
                 /\ Strptime(walk.store[walk.result.id].updated) <= walk.as_of

\* A snapshot behind the head, created exactly at as_of, is returned.
C9_Witness ==
    /\ WalkDone
    /\ walk.result.kind = "return"
    /\ walk.result.id # walk.head
    /\ Strptime(walk.store[walk.result.id].updated) = walk.as_of

\* C10: when every snapshot of the chain was created after as_of (and every
\* fetch succeeds) the walk fetches the chain down to the snapshot without a
\* predecessor link and fails there with NoMetadataFoundError, returning no
\* snapshot.
C10_ExhaustedChainRaises ==
    (WalkDone /\ AtOrBefore = {} /\ FetchesSucceed(Len(WalkChain)))
        => /\ walk.result.kind = "raise"
           /\ walk.result.exc = "NoMetadataFoundError"
           /\ walk.result.id = NoneHash
           /\ walk.result.fetched = WalkChain
           /\ get_previous_hash_from_metadata(
                  walk.store[walk.result.fetched[Len(walk.result.fetched)]]) = NoneHash

C10_Witness ==
    /\ WalkDone
    /\ Len(WalkChain) >= 2
    /\ AtOrBefore = {}
    /\ walk.result.exc = "NoMetadataFoundError"

(***************************************************************************)
(* Properties of dataset resolution, checked under DatasetSpec.            *)
(***************************************************************************)
IsLegacyDataset == walk.op = "get_dataset_by_ipns_hash_legacy"

IsCurrentDataset == walk.op = "get_dataset_by_ipns_hash"

IsMetadataByKey == walk.op = "get_metadata_by_key"

\* No request of the call fails.
NoRequestFails == walk.fail_at = 0

\* C11: without as_of, resolution returns the head snapshot after exactly one
\* snapshot fetch, that of the head, and follows no predecessor link, whatever
\* the creation time of the head: get_metadata_by_key once the name is
\* resolved, and the legacy get_dataset_by_ipns_hash with as_of = None, which
\* opens the payload of the head.
C11_NoAsOfFetchesHeadOnly ==
    /\ (IsMetadataByKey /\ walk.name.kind = "return" /\ NoRequestFails)
          => /\ walk.result.kind = "return"
             /\ walk.result.id = walk.head
             /\ walk.result.fetched = <<walk.head>>
    /\ (IsLegacyDataset /\ walk.as_of = NoAsOf /\ NoRequestFails)
          => /\ walk.result.kind = "return"
             /\ walk.result.snapshot = walk.head
             /\ walk.result.fetched = <<walk.head>>
             /\ walk.result.dataset = DatasetAt(AssetHref(walk.store, walk.head))

\* The head has a predecessor and was created at the latest instant; it is
\* returned by get_metadata_by_key after one fetch.
C11_Witness ==
    /\ IsMetadataByKey
    /\ walk.name.kind = "return"
    /\ Len(WalkChain) >= 2
    /\ walk.store[walk.head].updated = MaxSec
    /\ walk.result.kind = "return"
    /\ walk.result.id = walk.head
    /\ Len(walk.result.fetched) = 1

\* The same head is opened by the legacy get_dataset_by_ipns_hash without as_of.
C11_WitnessLegacy ==
    /\ IsLegacyDataset
    /\ walk.as_of = NoAsOf
    /\ Len(WalkChain) >= 2
    /\ walk.store[walk.head].updated = MaxSec
    /\ walk.result.kind = "return"
    /\ walk.result.snapshot = walk.head

\* C12: get_dataset_by_ipns_hash(pointer, as_of) honours as_of: it returns the
\* payload of the snapshot that the backward walk selects for as_of, fails as
\* the walk does when no snapshot is old enough, and returns the most recent
\* dataset when as_of is None.
C12_DatasetHonoursAsOf ==
    IsCurrentDataset =>
        /\ walk.as_of = NoAsOf
              => /\ walk.result.kind = "return"
                 /\ walk.result.dataset = DatasetAt(AssetHref(walk.store, walk.head))
        /\ (walk.as_of # NoAsOf /\ AtOrBefore # {})
              => /\ walk.result.kind = "return"
                 /\ walk.result.dataset =
                        DatasetAt(AssetHref(walk.store, WalkChain[FirstAtOrBefore]))
        /\ (walk.as_of # NoAsOf /\ AtOrBefore = {})
              => walk.result.kind = "raise"

(***************************************************************************)
(* Properties of the link tags, checked under TagSpec.                     *)
(***************************************************************************)
TagDone ==
    walk.op \in {"get_relevant_metadata_tagged", "get_relevant_metadata_tagged_legacy"}

\* The walk was made by the walker of src/ipfs_retrieval.py.
CurrentWalker == walk.op = "get_relevant_metadata_tagged"

\* The relations of the links of snapshot id.
RelsOf(id) == {walk.store[id].links[i].rel : i \in DOMAIN walk.store[id].links}

\* The last snapshot the walk fetched.
LastFetched == walk.result.fetched[Len(walk.result.fetched)]

\* C13 (as claimed): the walk, by either walker, follows a predecessor link
\* tagged "previous" or "prev" alike: on a chain with any subset of its links tagged "prev" it gives the result
\* (snapshot or exception, and fetches) it gives on the chain with all of them
\* tagged "previous".  A snapshot whose links carry neither tag is the root of
\* the walk: nothing is fetched behind it, and when it was created after as_of
\* the walk ends there with NoMetadataFoundError.
C13_BothTagsAndRootWithoutTag ==
    TagDone =>
        /\ walk.result = walk.retagged
        /\ \A i \in 1..(Len(walk.result.fetched) - 1) :
              /\ RelsOf(walk.result.fetched[i]) \cap Tags # {}
              /\ walk.result.fetched[i + 1] = walk.result.fetched[i] - 1
        /\ (/\ walk.fail_at = 0
            /\ RelsOf(LastFetched) \cap Tags = {}
            /\ Strptime(walk.store[LastFetched].updated) > walk.as_of)
              => /\ walk.result.kind = "raise"
                 /\ walk.result.exc = "NoMetadataFoundError"

\* C13, the part the code does keep: the walker of src/ipfs_retrieval.py
\* gives the same result under either tag.
C13_CurrentWalkerBothTags == CurrentWalker => walk.result = walk.retagged

\* A full chain with both tags in use is walked to a snapshot old enough.
C13_Witness ==
    /\ CurrentWalker
    /\ Len(walk.store) = MaxChain
    /\ \E i, j \in 2..MaxChain : /\ "prev" \in RelsOf(i)
                                 /\ "previous" \in RelsOf(j)
    /\ walk.result.kind = "return"
    /\ walk.result.id = 1

\* The head links to an older snapshot under an unknown tag and is the root.
C13_WitnessOtherTag ==
    /\ TagDone
    /\ OtherRel \in RelsOf(walk.head)
    /\ \E id \in 1..(walk.head - 1) : Strptime(walk.store[id].updated) <= walk.as_of
    /\ walk.result.exc = "NoMetadataFoundError"
    /\ walk.result.fetched = <<walk.head>>

(***************************************************************************)
(* Properties of frames, checked under FrameSpec.                          *)
(***************************************************************************)
FrameDone == codec.op = "decode"

SameHeader == codec.enc_header = codec.dec_header

\* The shared key at decode is the key the frame was encoded under.
SameKey == codec.key = codec.enc_key

\* The regions of a frame, as positions counted from 1.
InTag(flip) == NonceLen < flip /\ flip <= NonceLen + TagLen

InCiphertext(flip) == NonceLen + TagLen < flip

IntegrityError ==
    /\ codec.result.kind = "raise"
    /\ codec.result.exc = "ValueError"
    /\ codec.result.msg = "MAC check failed"

\* C14: with a valid key that stays as it is, a codec decodes the frame it
\* encoded to the plaintext that was encoded, for every plaintext and header.
C14_DecodeOfEncodeIsPlaintext ==
    (FrameDone /\ codec.flip = 0 /\ SameHeader /\ SameKey /\ ~codec.out.given)
        => /\ codec.result.kind = "return"
           /\ codec.result.value = codec.plain

\* A plaintext of full length whose ciphertext differs from it is recovered.
C14_Witness ==
    /\ FrameDone
    /\ codec.flip = 0
    /\ SameHeader
    /\ SameKey
    /\ ~codec.out.given
    /\ Len(codec.plain) = MaxLen
    /\ Slice(codec.frame, NonceLen + TagLen, Len(codec.frame)) # codec.plain
    /\ codec.result.value = codec.plain

\* C15: a frame with one byte of its tag (bytes 24..39) or of its ciphertext
\* (bytes 40..end) changed is refused by decode with the integrity error, and
\* decode never returns a plaintext other than the encoded one, whichever
\* byte of the frame was changed.
C15_ChangedBitIsRefused ==
    FrameDone =>
        /\ (InTag(codec.flip) \/ InCiphertext(codec.flip)) => IntegrityError
        /\ (codec.result.kind = "return" /\ ~codec.out.given)
              => codec.result.value = codec.plain
        /\ (codec.result.kind = "return" /\ codec.out.given)
              => codec.result.value = ReadInto(codec.plain, codec.out.bytes)

\* The last ciphertext bit of a frame is changed and decode refuses the frame.
C15_Witness ==
    /\ FrameDone
    /\ SameHeader
    /\ SameKey
    /\ Len(codec.plain) = MaxLen
    /\ codec.flip = NonceLen + TagLen + MaxLen
    /\ IntegrityError

\* A byte of the tag is changed and decode refuses the frame.
C15_WitnessTag ==
    /\ FrameDone
    /\ SameHeader
    /\ SameKey
    /\ InTag(codec.flip)
    /\ IntegrityError

\* C16: a frame encoded by a codec with one header is refused with the
\* integrity error by a codec with another header and the same key.
C16_OtherHeaderIsRefused ==
    (FrameDone /\ ~SameHeader) => IntegrityError

C16_Witness ==
    /\ FrameDone
    /\ codec.flip = 0
    /\ SameKey
    /\ codec.enc_header = DefaultHeader
    /\ codec.dec_header # DefaultHeader
    /\ codec.plain # <<>>
    /\ IntegrityError

(***************************************************************************)
(* Properties of the key, checked under CodecSpec.                         *)
(***************************************************************************)
IsSetKey == codec.op = "set_encryption_key"

IsConstruction == codec.op \in {"__init__", "from_config"}

ConfigurationError ==
    /\ codec.result.kind = "raise"
    /\ codec.result.exc = "ValueError"
    /\ codec.result.msg = "Encryption key must be set before using EncryptionCodec."

InvalidKeyError ==
    /\ codec.result.kind = "raise"
    /\ codec.result.exc = "ValueError"
    /\ codec.result.msg = "Encryption key must be 32 bytes"

\* C17: whatever calls were made, encode and decode only ever ran with a key
\* set: while no set_encryption_key has succeeded, every construction, by
\* __init__ or by from_config, fails with the configuration error and there
\* is no instance; a key once set is never unset.
C17_NoCodecWithoutKey ==
    /\ codec.instances # {} => codec.key # NoKey
    /\ codec.op \in {"encode", "decode"} => codec.before # NoKey
    /\ (IsConstruction /\ codec.before = NoKey)
          => /\ ConfigurationError
             /\ codec.instances = {}
    /\ (codec.op # "none" /\ codec.before # NoKey) => codec.key # NoKey

\* from_config is refused while no key is set.
C17_Witness ==
    /\ codec.op = "from_config"
    /\ codec.key = NoKey
    /\ ConfigurationError

\* encode ran, on an instance built after the key was set.
C17_WitnessEncode ==
    /\ codec.op = "encode"
    /\ codec.result.kind = "return"
    /\ codec.key \in ValidKeys

\* C18: set_encryption_key refuses every byte string whose length is not 32
\* with the invalid-key error and leaves the key, or its absence, as it was;
\* a byte string of 32 bytes is accepted and becomes the shared key.
C18_OnlyKeysOf32Bytes ==
    (IsSetKey /\ codec.arg.key.type = "bytes") =>
        /\ codec.arg.key.len # KeyLen
              => /\ InvalidKeyError
                 /\ codec.key = codec.before
        /\ codec.arg.key.len = KeyLen
              => /\ codec.result.kind = "return"
                 /\ codec.key = codec.arg.key

\* A key of 33 bytes is refused and the key set before stays.
C18_Witness ==
    /\ IsSetKey
    /\ codec.arg.key = BytesKey(KeyLen + 1, 0)
    /\ codec.before \in ValidKeys
    /\ codec.key = codec.before
    /\ InvalidKeyError

\* A key of 32 bytes replaces another.
C18_WitnessAccepted ==
    /\ IsSetKey
    /\ codec.before \in ValidKeys
    /\ codec.key \in ValidKeys
    /\ codec.key # codec.before

\* C19: set_encryption_key accepts a key given as the 64-character hex string
\* of 32 bytes, and it becomes a key codecs can encode and decode with.
C19_HexStringAccepted ==
    (IsSetKey /\ codec.arg.key = StrKey("hex of 32 bytes", 2 * KeyLen))
        => /\ codec.result.kind = "return"
           /\ codec.key # codec.before
           /\ codec.key # NoKey

\* C20: set_encryption_key raises ValueError for every invalid argument: the
\* integer 123, the string "123Z" that is not hexadecimal, the hexadecimal
\* string "1234567890" of the wrong length.
C20_InvalidArgumentIsValueError ==
    (IsSetKey /\ codec.arg.key \in {IntKey("123"), StrKey("123Z", 4),
                                    StrKey("1234567890", 10)})
        => /\ codec.result.kind = "raise"
           /\ codec.result.exc = "ValueError"

(***************************************************************************)
(* Further properties of frames, checked under FrameSpec.                  *)
(***************************************************************************)
\* The frame handed to decode.
DecodedFrame == codec.buf

\* The frame arrives as it was encoded and is decoded under the key and the
\* header it was encoded under.
Untouched == codec.flip = 0 /\ SameHeader /\ SameKey

\* The tag of the frame handed to decode is the tag of its nonce and
\* ciphertext under the key and the header of the decoding codec.
TagVerifies ==
    Slice(DecodedFrame, NonceLen, NonceLen + TagLen)
        = MacTag(codec.key, Slice(DecodedFrame, 0, NonceLen),
                 StrEncode(codec.dec_header),
                 Slice(DecodedFrame, NonceLen + TagLen, Len(DecodedFrame)))

\* C21: decode fails closed: the tag verifies only for a frame that arrives
\* unchanged at a codec with the header and the key of its encoding; when the
\* tag does not verify, decode raises, no
\* plaintext is returned, and the out buffer the caller gave holds the bytes
\* it held before the call; out is written only by a decode whose tag
\* verified and that returned.
C21_DecodeFailsClosed ==
    FrameDone =>
        /\ TagVerifies <=> Untouched
        /\ ~TagVerifies
              => /\ IntegrityError
                 /\ codec.result.value = <<>>
                 /\ codec.out_after = codec.out.bytes
        /\ codec.out_after # codec.out.bytes
              => /\ TagVerifies
                 /\ codec.result.kind = "return"

\* A changed ciphertext bit would have decrypted to bytes other than those of
\* out; decode raised and out is as it was.
C21_Witness ==
    /\ FrameDone
    /\ codec.out.given
    /\ InCiphertext(codec.flip)
    /\ IntegrityError
    /\ ~TagVerifies
    /\ SameKey
    /\ ReadInto(StreamXor(codec.key, codec.nonce,
                          Slice(DecodedFrame, NonceLen + TagLen, Len(DecodedFrame))),
                codec.out.bytes) # codec.out.bytes
    /\ codec.out_after = codec.out.bytes

(***************************************************************************)
(* Further properties of the key, checked under CodecSpec.                 *)
(***************************************************************************)
IsFromConfig == codec.op = "from_config"

\* C22: from_config reads the header of the config and nothing else: with or
\* without an entry holding a key in the config, the shared key after the
\* call is the shared key before it, the codec is built exactly when that
\* shared key is set, and its header is the header of the config, or
\* "dClimate-Zarr" when the config has none.
C22_FromConfigReadsHeaderOnly ==
    IsFromConfig =>
        /\ codec.key = codec.before
        /\ codec.before = NoKey => ConfigurationError
        /\ codec.before # NoKey
              => /\ codec.result.kind = "return"
                 /\ codec.result.value \in codec.instances
                 /\ codec.result.value.header =
                        IF codec.arg.header = NoHeader
                        THEN DefaultHeader ELSE codec.arg.header

\* A config without header and with a key other than the shared one: the
\* codec has the default header and the shared key is as before.
C22_Witness ==
    /\ IsFromConfig
    /\ codec.arg.header = NoHeader
    /\ codec.arg.key \in ValidKeys
    /\ codec.before \in ValidKeys
    /\ codec.before # codec.arg.key
    /\ codec.key = codec.before
    /\ codec.result.kind = "return"
    /\ codec.result.value.header = DefaultHeader

\* A config with a key while no shared key is set: the construction fails.
C22_WitnessNoKey ==
    /\ IsFromConfig
    /\ codec.arg.key \in ValidKeys
    /\ codec.key = NoKey
    /\ ConfigurationError

(***************************************************************************)
(* Properties of the nonces, checked under NonceSpec.                      *)
(***************************************************************************)
\* The nonce of the i-th frame of the run: its first 24 bytes.
NoncePrefix(i) == Slice(codec.log[i].frame, 0, NonceLen)

\* C23 as stated: the nonces of the frames encoded under one key are pairwise
\* distinct, also when a plaintext is encoded twice.
C23_NoncesPairwiseDistinct ==
    \A i, j \in 1..Len(codec.log) : i # j => NoncePrefix(i) # NoncePrefix(j)

\* C23, amended: the nonce of each frame is the value get_random_bytes(24)
\* gave to that call, whatever the plaintext, the header and the earlier
\* calls: two frames under one key have the same nonce exactly when the
\* random source gave both calls the same bytes, and a plaintext encoded
\* twice with different random bytes gives two different frames.
C23_NonceIsTheRandomDraw ==
    \A i, j \in 1..Len(codec.log) :
        /\ NoncePrefix(i) = codec.log[i].random
        /\ (NoncePrefix(i) = NoncePrefix(j)) <=> (codec.log[i].random = codec.log[j].random)
        /\ (codec.log[i].plain = codec.log[j].plain
            /\ codec.log[i].random # codec.log[j].random)
              => codec.log[i].frame # codec.log[j].frame

\* One plaintext was encoded twice, under different random bytes.
C23_Witness ==
    /\ Len(codec.log) >= 2
    /\ codec.log[1].plain = codec.log[2].plain
    /\ codec.log[1].plain # <<>>
    /\ codec.log[1].random # codec.log[2].random
    /\ NoncePrefix(1) # NoncePrefix(2)

(***************************************************************************)
(* Properties of the outage, checked under OutageSpec.                     *)
(***************************************************************************)
\* C24: after a call that succeeded against a registry answering with the
\* mapping M, a call made while the registry is unreachable returns M[k] for
\* a key k of M and fails with DatasetNotFoundError for any other key,
\* whether the cache file was absent or held another mapping before (and
\* nobody touched it during the call).
C24_OutageServesLastMapping ==
    (/\ call.phase = "outage"
     /\ call.pc = "done"
     /\ call.opened = call.before
     /\ call.before.kind = "missing" \/ IsMapping(call.before))
        => IF call.key \in DOMAIN call.fresh
           THEN call.result = ReturnPtr(call.fresh[call.key])
           ELSE call.result = DatasetNotFound

IsDecode == codec.op = "decode"

\* C25: the key is shared by the instances.  Once set_encryption_key has put
\* another valid key in the place of the key a frame was encoded under,
\* decode of that frame fails with the integrity error on every instance,
\* those built under the earlier key included; a frame decodes, to its
\* plaintext, only while the shared key is the key it was encoded under.
C25_FrameDecodesOnlyUnderItsKey ==
    (IsDecode /\ codec.sealed # NoSealed /\ codec.key \in ValidKeys) =>
        /\ codec.key # codec.sealed.key => IntegrityError
        /\ codec.result.kind = "return"
              => /\ codec.key = codec.sealed.key
                 /\ codec.arg.header = codec.sealed.header
        /\ (codec.key = codec.sealed.key /\ codec.arg.header = codec.sealed.header)
              => codec.result.kind = "return"

\* The instance that encoded the frame, the first one built, was built under
\* the key of the frame;
\* the key has been replaced and that instance no longer decodes the frame.
C25_Witness ==
    /\ IsDecode
    /\ codec.key \in ValidKeys
    /\ codec.sealed.key \in ValidKeys
    /\ codec.key # codec.sealed.key
    /\ codec.arg.header = codec.sealed.header
    /\ codec.first = [header |-> codec.arg.header, key |-> codec.sealed.key]
    /\ codec.sealed.plain # <<>>
    /\ IntegrityError

\* A frame encoded after the replacement, by an instance built before it,
\* decodes under the new key.
C25_WitnessNewKey ==
    /\ IsDecode
    /\ codec.key \in ValidKeys
    /\ codec.sealed.key = codec.key
    /\ codec.first.header = codec.arg.header
    /\ codec.first.key \in ValidKeys
    /\ codec.first.key # codec.key
    /\ codec.sealed.plain # <<>>
    /\ codec.result.kind = "return"
    /\ ~codec.arg.out.given
    /\ codec.result.value = codec.sealed.plain

(***************************************************************************)
(* Properties of the threads, checked under ThreadSpec.                    *)
(***************************************************************************)
ThreadFinished(t) == codec.thread[t].pc = "done"

\* What the call of thread t returns when it runs alone.
Alone(t) ==
    LET c == codec.thread[t]
    IN IF c.op = "encode"
       THEN encode(Instance(c.header), c.buf, c.drawn, codec.key)
       ELSE decode(Instance(c.header), c.buf, NoOut, codec.key)

\* The codec whose frame thread t decodes had the header of the decoding one.
DecodesOwnHeader(t) ==
    LET c == codec.thread[t]
    IN /\ c.op = "decode"
       /\ Slice(c.buf, NonceLen, NonceLen + TagLen)
             = MacTag(codec.key, Slice(c.buf, 0, NonceLen),
                      StrEncode(c.header), Slice(c.buf, NonceLen + TagLen, Len(c.buf)))

\* C26: however the statements of the calls of the threads interleave, the
\* key staying as it is, a call that has finished has returned what it
\* returns when run alone, and a decode of a frame that an encode produced
\* for the same header has returned the plaintext of that encode.
C26_CallsReturnAsWhenAlone ==
    \A t \in Threads :
        ThreadFinished(t) =>
            /\ codec.thread[t].result = Alone(t)
            /\ DecodesOwnHeader(t) => codec.thread[t].result = CodecReturn(codec.thread[t].plain)

\* An encode and a decode, of different headers and buffers, both finished,
\* the encode having drawn another nonce than the decoded frame has.
C26_Witness ==
    /\ codec.op = "threads"
    /\ \A t \in Threads : ThreadFinished(t)
    /\ \E t, u \in Threads :
          /\ codec.thread[t].op = "encode"
          /\ codec.thread[u].op = "decode"
          /\ codec.thread[t].header # codec.thread[u].header
          /\ codec.thread[t].buf # <<>>
          /\ codec.thread[u].plain # <<>>
          /\ codec.thread[t].plain # codec.thread[u].plain
          /\ codec.thread[t].drawn # Slice(codec.thread[u].buf, 0, NonceLen)
          /\ codec.thread[u].result = CodecReturn(codec.thread[u].plain)

(***************************************************************************)
(* Further properties of the walker, checked under WalkSpec.               *)
(***************************************************************************)
\* The walk comes to make its n-th fetch: none of the snapshots before the
\* n-th of the chain was created at or before as_of.
ReachesFetch(n) ==
    /\ n \in 1..Len(WalkChain)
    /\ \A i \in 1..(n - 1) : CreatedAt(i) > walk.as_of

\* C27: a failed fetch, of the head or of a predecessor, ends the walk at
\* once: the failure of the fetch is what the walk raises, the failed fetch
\* is the last one and was made once, and neither a snapshot nor
\* NoMetadataFoundError comes out.
C27_FailedFetchAbortsWalk ==
    (WalkDone /\ ReachesFetch(walk.fail_at))
        => /\ walk.result.kind = "raise"
           /\ walk.result.exc = "HTTPError"
           /\ walk.result.id = NoneHash
           /\ walk.result.fetched = SubSeq(WalkChain, 1, walk.fail_at)

\* The fetch of a predecessor fails although an older snapshot would have
\* matched.
C27_Witness ==
    /\ WalkDone
    /\ walk.fail_at = 2
    /\ Len(WalkChain) = MaxChain
    /\ AtOrBefore # {}
    /\ walk.result.exc = "HTTPError"
    /\ Len(walk.result.fetched) = 2

\* C28: on a chain of n snapshots the walk ends after at most n fetches, made
\* one after the other down the chain, no snapshot twice, and the snapshot it
\* returns is the last one it fetched: its predecessor is not fetched.  No
\* limit on the hops is involved: a chain of any length is walked to its end.
C28_AtMostOneFetchPerSnapshot ==
    WalkDone =>
        /\ Len(walk.result.fetched) <= Len(WalkChain)
        /\ walk.result.fetched = SubSeq(WalkChain, 1, Len(walk.result.fetched))
        /\ \A i, j \in 1..Len(walk.result.fetched) :
              i # j => walk.result.fetched[i] # walk.result.fetched[j]
        /\ walk.result.kind = "return"
              => walk.result.id = walk.result.fetched[Len(walk.result.fetched)]
        /\ (walk.fail_at = 0 /\ walk.result.kind = "raise")
              => Len(walk.result.fetched) = Len(WalkChain)

\* The longest chain is walked down to its last snapshot, which is returned.
C28_Witness ==
    /\ WalkDone
    /\ Len(WalkChain) = MaxChain
    /\ walk.result.kind = "return"
    /\ walk.result.id = 1
    /\ Len(walk.result.fetched) = MaxChain

\* A snapshot with a predecessor is returned and the predecessor not fetched.
C28_WitnessStopsEarly ==
    /\ WalkDone
    /\ walk.result.kind = "return"
    /\ walk.result.id = walk.head
    /\ Len(WalkChain) >= 2
    /\ walk.result.fetched = <<walk.head>>

(***************************************************************************)
(* Properties of two walks of one chain, checked under MonoSpec.           *)
(***************************************************************************)
Walked == walk.op \in {"walked", "walked_legacy"}

\* C30: the walk is monotone in as_of.  For as_of1 <= as_of2 on one chain: if
\* the walk for as_of1 returns a snapshot, the walk for as_of2 returns that
\* snapshot or one nearer to the head (snapshot ids grow towards the head);
\* if the walk for as_of2 raises NoMetadataFoundError, so does the walk for
\* as_of1.
C30_WalkMonotoneInAsOf ==
    Walked =>
        /\ walk.result1.kind = "return"
              => /\ walk.result2.kind = "return"
                 /\ walk.result2.id >= walk.result1.id
        /\ walk.result2.exc = "NoMetadataFoundError"
              => walk.result1.exc = "NoMetadataFoundError"

\* The later instant gives a snapshot nearer to the head.
C30_Witness ==
    /\ walk.op = "walked"
    /\ walk.as_of1 < walk.as_of2
    /\ walk.result1.kind = "return"
    /\ walk.result2.kind = "return"
    /\ walk.result2.id > walk.result1.id

\* The later instant finds nothing, with the legacy walk.
C30_WitnessNothingFound ==
    /\ walk.op = "walked_legacy"
    /\ walk.as_of1 < walk.as_of2
    /\ Len(walk.store) = MaxChain
    /\ walk.result2.exc = "NoMetadataFoundError"
    /\ walk.result1.exc = "NoMetadataFoundError"

\* The earlier instant finds nothing and the later one a snapshot.
C30_WitnessOnlyLater ==
    /\ walk.op = "walked"
    /\ walk.result1.exc = "NoMetadataFoundError"
    /\ walk.result2.kind = "return"

(***************************************************************************)
(* Properties of listing and resolving together, checked under AgreeSpec.  *)
(***************************************************************************)
\* list_datasets returned a list and get_ipns_name_hash was then called
\* against the registry answer and the cache file that listing met.
ListedAndResolved ==
    /\ call.listed.result.kind = "return_keys"
    /\ call.resolved.key \in Keys
    /\ call.resolved.same_state

\* C29: list_datasets and get_ipns_name_hash agree.  Whenever list_datasets
\* returns a list, get_ipns_name_hash against the same registry answer and
\* cache file returns a pointer for each key of the list and raises
\* DatasetNotFoundError for each key outside it.
C29_ListAndResolveAgree ==
    ListedAndResolved =>
        IF call.resolved.key \in call.listed.result.keys
        THEN call.resolved.result.kind = "return"
        ELSE call.resolved.result = DatasetNotFound

\* The registry lists one key and the cache file knows the other one too:
\* the other one is not resolved.
C29_Witness ==
    /\ ListedAndResolved
    /\ call.listed.registry.kind = "json"
    /\ call.listed.result.keys = {"k1"}
    /\ HasKey(cache, "k2")
    /\ call.resolved.key = "k2"
    /\ call.resolved.result = DatasetNotFound

\* The registry is out of reach and the list comes from the cache file.
C29_WitnessFromCache ==
    /\ ListedAndResolved
    /\ call.listed.registry.kind = "network_error"
    /\ call.listed.result.keys = {"k2"}
    /\ call.resolved.key = "k2"
    /\ call.resolved.result.kind = "return"

\* Between the listing and the resolution the registry went out of reach:
\* a listed key is not resolved.
C29_WitnessStateChanged ==
    /\ call.listed.result.kind = "return_keys"
    /\ ~call.resolved.same_state
    /\ call.resolved.key \in call.listed.result.keys
    /\ call.resolved.result = DatasetNotFound

====
